---- MODULE Spec2Model ----
(***************************************************************************)
(* Task dispatch, health registry and autoscaler of HiveMindForge.         *)
(*                                                                         *)
(*   TaskManager     src/agents/groq_types.go (tasks, healthStatus, the    *)
(*                   RWMutex, AddTask, GetNextTask, UpdateTaskStatus,      *)
(*                   monitorHealthEvents)                                  *)
(*   Autoscaler      src/agents/infrastructure_agents.go (CheckScaling,    *)
(*                   ScaleSystem) and                                      *)
(*                   src/agents/orchestrator_infrastructure_agent.go       *)
(*                   (ScaleSystem, scaleOut)                               *)
(*                                                                         *)
(* Time is in seconds.  Task IDs are 1..MaxTasks (0 is the nil *Task).     *)
(* A nil *time.Time is the empty sequence, a set one is <<t>>.             *)
(***************************************************************************)
EXTENDS Integers, Sequences, FiniteSets, TLC

\* ------------------------------------------------------------------ bounds
MaxTasks == 2
TimedTasks == 1
MaxCallers == 2
MaxScalers == 2
MaxInstances == 2
MaxScaleTime == 600
ScaleTickStep == 150
MaxCompleted == 3
MaxAssigned == 3
MaxScore == 500
MaxWall == 1500
WallStep == 500
MaxTime == 60
TickStep == 30

\* ------------------------------------------------------- program constants
PriorityLow == 1
PriorityNormal == 2
PriorityHigh == 3
LivenessWindow == 30
cpuThreshold == 80
memoryThreshold == 85
tasksThreshold == 100
\* errorThreshold = 0.05: error rates are counted in hundredths
errorThreshold == 5
cooldownPeriod == 300
CPU_THRESHOLD == 80
MEMORY_THRESHOLD == 85
TASKS_THRESHOLD == 10
ERROR_THRESHOLD == 5
\* SCALE_COOLDOWN = 5 * time.Minute, in seconds
SCALE_COOLDOWN == 300
\* health.ProcessingTime > 5.0
OverloadSeconds == 5

TaskStatusPending == "pending"
TaskStatusAssigned == "assigned"
TaskStatusRunning == "running"
TaskStatusComplete == "complete"
TaskStatusFailed == "failed"

TaskStatuses ==
    {TaskStatusPending, TaskStatusAssigned, TaskStatusRunning,
     TaskStatusComplete, TaskStatusFailed}

\* ------------------------------------------------------------- input sets
TaskIDs == 1..MaxTasks
NilTask == 0
AgentNames == {"quiz", "quiz-worker"}
TaskTypes == {"quiz", "challenge"}
Priorities == {PriorityLow, PriorityNormal, PriorityHigh}
NilTime == <<>>
Callers == 1..MaxCallers
NoHolder == 0

VARIABLES
    tasks,          \* TaskManager.tasks: map ID -> Task (a function on the stored IDs)
    healthStatus,   \* TaskManager.healthStatus: map agent name -> AgentHealth
    dropped,        \* whether the heartbeat consumer has skipped a body so far
    now,            \* the wall clock read by time.Now / time.Since
    last,           \* the operation that ran last, with its argument and result
    mutex,          \* TaskManager.RWMutex: the goroutine holding the write lock
    pc,             \* where each goroutine is inside GetNextTask
    arg,            \* GetNextTask's agentName argument, per goroutine
    best,           \* GetNextTask's bestTask local (then its result), per goroutine
    handed,         \* per task, the goroutines it was returned to since it
                    \* last became pending
    since,          \* per goroutine, the tasks returned to others during its call
    lastScaleTime,  \* OrchestratorInfrastructureAgent.lastScaleTime
    metrics,        \* OrchestratorInfrastructureAgent.metrics (*SystemMetrics)
    instances,      \* OrchestratorInfrastructureAgent.instances: name -> instances
    spc,            \* where each goroutine is inside CheckScaling / ScaleSystem
    via,            \* the method each goroutine called
    sret,           \* what CheckScaling returned to each goroutine
    triggers,       \* the times of the last two scaling decisions that were true
    impl,           \* which of the two OrchestratorInfrastructureAgent types is built
    obsMetrics,     \* ObserverInfrastructureAgent.metrics (*SystemMetrics)
    agents,         \* OrchestratorInfrastructureAgent.agents: the registered names
    agentLock,      \* OrchestratorInfrastructureAgent.agentLock (sync.RWMutex)
    visited,        \* per goroutine, the agents scaleOut's loop has been through
    regName,        \* per goroutine, the name RegisterAgent was called with
    metricsMap,     \* ObserverInfrastructureAgent.metricsMap: name -> AgentMetrics
    systemMetrics,  \* ObserverInfrastructureAgent.systemMetrics
    monitoring,     \* whether StartMonitoring has started the collection loop
    estimate,       \* a worker's processingTimeEstimate
    durations,      \* the durations of the tasks the worker has completed, in order
    shortTerm,      \* the Redis keys memory:<agent>:<id> and the memories under them
    longTerm,       \* the MongoDB collection: _id -> memory document
    loopPc,         \* where the observer's startMonitoring goroutine is
    tickReady,      \* whether ticker.C holds a tick that was not received
    stopClosed,     \* whether stopChan is closed
    rpc,            \* where the reader of the observer's SystemMetrics is
    obtained,       \* the SystemMetrics as GetSystemMetrics returned them
    seen,           \* the fields the reader has read through the pointer
    mapLock,        \* ObserverInfrastructureAgent.metricsMapLock (sync.RWMutex)
    inMap,          \* the operations that are reading or writing metricsMap
    hmAgents,       \* HiveMind.Agents
    hmTasks,        \* HiveMind.Tasks
    taskAgent,      \* Task.Agent of every task object ("" is nil)
    totalScore,     \* OrchestratorAgent.TotalScore
    wall            \* time.Now() of the agents' process, in milliseconds

tmVars == <<tasks, healthStatus, dropped, now, last>>
lockVars == <<mutex, pc, arg, best, handed, since>>
infraVars == <<metrics, instances>>
orchVars == <<obsMetrics, agents, agentLock, visited, regName>>
scaleVars == <<lastScaleTime, spc, via, sret, triggers, impl, infraVars, orchVars>>
aggVars == <<metricsMap, systemMetrics, monitoring>>
workerVars == <<estimate, durations>>
memVars == <<shortTerm, longTerm, wall>>
loopVars == <<loopPc, tickReady, stopClosed>>
readVars == <<rpc, obtained, seen>>
hiveVars == <<hmAgents, hmTasks, taskAgent, totalScore>>
restVars == <<readVars, hiveVars>>
mapVars == <<mapLock, inMap>>
otherVars == <<aggVars, workerVars, memVars, loopVars, restVars, mapVars>>
vars == <<tmVars, lockVars, scaleVars, otherVars>>

\* The record of a call: op is the operation, agent and id its argument,
\* ret the task GetNextTask returned (NilTask for nil), pub the routing keys
\* of the messages it published, err the error it logged ("" for none) and
\* status the status UpdateTaskStatus was called with, msg the body the
\* heartbeat consumer was delivered (<<>> for none).
Call(op, agent, id, ret) ==
    [op |-> op, agent |-> agent, id |-> id, ret |-> ret, pub |-> <<>>,
     err |-> "", status |-> "", msg |-> <<>>]

\* --------------------------------------------------------------- AddTask
\* The task object the caller passes: ID, Type and Priority set, the other
\* fields at their zero values.
NewTask(type, prio) ==
    [Type |-> type, Priority |-> prio, Status |-> TaskStatusPending,
     AssignedTo |-> "", CreatedAt |-> now, CompletedAt |-> NilTime]

\* Mutant: the map is replaced by one that holds the new entry only.
PutAlone(f, k, v) == [x \in {k} |-> v]

Put(f, k, v) == [x \in DOMAIN f \cup {k} |-> IF x = k THEN v ELSE f[x]]

\* Mutant: the event is published under the task's ID.
RoutingKeyByID(id, type) == "task." \o ToString(id)

\* fmt.Sprintf("task.%s", task.Type)
RoutingKey(id, type) == "task." \o type

\* What json.Marshal(task) and rabbitmqCh.Publish return: both nil, or one of
\* them an error, which AddTask logs before it returns.
PublishOutcomes == {"", "marshal", "publish"}

\* Mutant: a task whose event cannot be published is not stored.
AddTaskPublishedOnly(id, type, prio, outcome) ==
    /\ tasks' = IF outcome = "" THEN Put(tasks, id, NewTask(type, prio)) ELSE tasks
    /\ last' = [Call("AddTask", "", id, NilTask) EXCEPT
            !.pub = IF outcome = "" THEN <<RoutingKey(id, type)>> ELSE <<>>,
            !.err = outcome]
    /\ UNCHANGED <<healthStatus, dropped, now>>

\* The task is stored first; the event goes out only if the task serializes
\* and the channel accepts it.
AddTask(id, type, prio, outcome) ==
    /\ tasks' = Put(tasks, id, NewTask(type, prio))
    /\ last' = [Call("AddTask", "", id, NilTask) EXCEPT
            !.pub = IF outcome = "" THEN <<RoutingKey(id, type)>> ELSE <<>>,
            !.err = outcome]
    /\ UNCHANGED <<healthStatus, dropped, now>>

\* ---------------------------------------------------- monitorHealthEvents
\* The body of a message on health.*: the JSON fields of an AgentHealth, and
\* whether json.Unmarshal accepts the bytes.
HealthBody(name, hb, processing, ptime, decodes) ==
    [agent_name |-> name, last_heartbeat |-> hb, is_processing |-> processing,
     processing_time |-> ptime, decodes |-> decodes]

Decoded(body) ==
    [AgentName |-> body.agent_name, LastHeartbeat |-> body.last_heartbeat,
     IsProcessing |-> body.is_processing, ProcessingTime |-> body.processing_time]

\* Mutant: the error of json.Unmarshal is not looked at.
UnmarshalIgnoringError(body) == [err |-> FALSE, health |-> Decoded(body)]

\* json.Unmarshal(msg.Body, &health)
Unmarshal(body) == [err |-> ~body.decodes, health |-> Decoded(body)]

\* One iteration of the consumer loop: a body that does not decode is logged
\* and skipped, a decoded AgentHealth replaces the record stored under its
\* AgentName.
Consume(body) ==
    /\ body.last_heartbeat <= now
    /\ LET d == Unmarshal(body)
       IN  IF d.err
           THEN /\ healthStatus' = healthStatus
                /\ dropped' = TRUE
                /\ last' = [Call("Heartbeat", "", NilTask, NilTask) EXCEPT
                        !.err = "unmarshal", !.msg = <<body>>]
           ELSE /\ healthStatus' = Put(healthStatus, d.health.AgentName, d.health)
                /\ dropped' = dropped
                /\ last' = [Call("Heartbeat", d.health.AgentName, NilTask, NilTask)
                        EXCEPT !.msg = <<body>>]
    /\ UNCHANGED <<tasks, now>>

\* One well-formed heartbeat delivered.
monitorHealthEvents(name, hb, processing, ptime) ==
    Consume(HealthBody(name, hb, processing, ptime, TRUE))

\* One heartbeat delivered whose body does not decode.
monitorHealthEventsMalformed(name, hb, processing, ptime) ==
    Consume(HealthBody(name, hb, processing, ptime, FALSE))

\* ------------------------------------------------------------ GetNextTask
\* Mutant: the heartbeat age is not looked at.
UnhealthyNoExpiry(agentName) == agentName \notin DOMAIN healthStatus

\* time.Since(health.LastHeartbeat) > 30*time.Second
Unhealthy(agentName) ==
    \/ agentName \notin DOMAIN healthStatus
    \/ now - healthStatus[agentName].LastHeartbeat > LivenessWindow

\* Mutant: the loop also takes the failed tasks.
CandidatesRetryingFailed(agentName) ==
    {t \in DOMAIN tasks :
        /\ tasks[t].Status \in {TaskStatusPending, TaskStatusFailed}
        /\ tasks[t].Type = healthStatus[agentName].AgentName
        /\ tasks[t].Priority > PriorityLow - 1}

\* Mutant: the loop does not skip the tasks that are not pending.
CandidatesAnyStatus(agentName) ==
    {t \in DOMAIN tasks :
        /\ tasks[t].Type = healthStatus[agentName].AgentName
        /\ tasks[t].Priority > PriorityLow - 1}

\* The tasks the loop may keep in bestTask: pending, task.Type ==
\* health.AgentName, priority above PriorityLow-1, and no candidate of higher
\* priority.  The map is ranged over in an unspecified order and the
\* comparison is strict, so any candidate of the highest priority can be the
\* one kept.
Candidates(agentName) ==
    {t \in DOMAIN tasks :
        /\ tasks[t].Status = TaskStatusPending
        /\ tasks[t].Type = healthStatus[agentName].AgentName
        /\ tasks[t].Priority > PriorityLow - 1}

\* Mutant: the loop keeps the first candidate it meets.
BestTasksFirstMet(agentName) ==
    {t \in DOMAIN tasks :
        /\ tasks[t].Status = TaskStatusPending
        /\ tasks[t].Type = healthStatus[agentName].AgentName}

BestTasks(agentName) ==
    {t \in Candidates(agentName) :
        \A u \in Candidates(agentName) : tasks[u].Priority <= tasks[t].Priority}

\* Mutant: the assignment also lowers the task's priority.
AssignDemoting(t, agentName) ==
    [tasks EXCEPT ![t].Status = TaskStatusAssigned, ![t].AssignedTo = agentName,
                  ![t].Priority = PriorityLow]

Assign(t, agentName) ==
    [tasks EXCEPT ![t].Status = TaskStatusAssigned, ![t].AssignedTo = agentName]

GetNextTask(agentName) ==
    /\ UNCHANGED <<healthStatus, dropped, now>>
    /\ IF Unhealthy(agentName)
       THEN /\ tasks' = tasks
            /\ last' = Call("GetNextTask", agentName, NilTask, NilTask)
       ELSE IF healthStatus[agentName].IsProcessing \/ BestTasks(agentName) = {}
       THEN /\ tasks' = tasks
            /\ last' = Call("GetNextTask", agentName, NilTask, NilTask)
       ELSE \E t \in BestTasks(agentName) :
            /\ tasks' = Assign(t, agentName)
            /\ last' = Call("GetNextTask", agentName, NilTask, t)

\* ------------------------------------------------------- UpdateTaskStatus
\* Mutant: an unknown ID gets a task of its own.
UpdateTaskStatusCreating(taskID, status) ==
    /\ tasks' = Put(tasks, taskID,
            IF taskID \in DOMAIN tasks
            THEN [tasks[taskID] EXCEPT
                    !.Status = status,
                    !.CompletedAt =
                        IF status = TaskStatusComplete THEN <<now>> ELSE @]
            ELSE [NewTask("", PriorityLow) EXCEPT !.Status = status])
    /\ last' = [Call("UpdateTaskStatus", "", taskID, NilTask) EXCEPT
            !.status = status]
    /\ UNCHANGED <<healthStatus, dropped, now>>

\* Mutant: CompletedAt is stamped whatever the new status is.
UpdateTaskStatusAlwaysStamps(taskID, status) ==
    /\ IF taskID \in DOMAIN tasks
       THEN tasks' = [tasks EXCEPT
                ![taskID].Status = status,
                ![taskID].CompletedAt = <<now>>]
       ELSE tasks' = tasks
    /\ last' = [Call("UpdateTaskStatus", "", taskID, NilTask) EXCEPT
            !.status = status]
    /\ UNCHANGED <<healthStatus, dropped, now>>

UpdateTaskStatus(taskID, status) ==
    /\ IF taskID \in DOMAIN tasks
       THEN tasks' = [tasks EXCEPT
                ![taskID].Status = status,
                ![taskID].CompletedAt =
                    IF status = TaskStatusComplete THEN <<now>> ELSE @]
       ELSE tasks' = tasks
    /\ last' = [Call("UpdateTaskStatus", "", taskID, NilTask) EXCEPT
            !.status = status]
    /\ UNCHANGED <<healthStatus, dropped, now>>

\* ------------------------------------------------------------------ clock
Advance(step, max) ==
    /\ now + step <= max
    /\ now' = now + step
    /\ last' = Call("Tick", "", NilTask, NilTask)
    /\ UNCHANGED <<tasks, healthStatus, dropped>>

Tick == Advance(TickStep, MaxTime)

\* ------------------------------------------- GetNextTask, step by step
\* sync.RWMutex.Lock returns only when no goroutine holds the lock.
\* Mutant: Lock returns at once.
CanLockAlways == TRUE

CanLock == mutex = NoHolder

\* The call is made; the goroutine is about to block in tm.Lock().
\* Mutant: the call returns with the lock still held.
UnlockedNever(c) == c

\* defer tm.Unlock(): the holder of the lock once goroutine c has returned.
Unlocked(c) == NoHolder

Enter(c, agentName) ==
    /\ pc[c] \in {"idle", "done"}
    /\ pc' = [pc EXCEPT ![c] = "waiting"]
    /\ arg' = [arg EXCEPT ![c] = agentName]
    /\ best' = [best EXCEPT ![c] = NilTask]
    /\ since' = [since EXCEPT ![c] = {}]
    /\ UNCHANGED <<tmVars, mutex, handed, scaleVars, otherVars>>

\* tm.Lock()
Lock(c) ==
    /\ pc[c] = "waiting"
    /\ CanLock
    /\ mutex' = c
    /\ pc' = [pc EXCEPT ![c] = "locked"]
    /\ UNCHANGED <<tmVars, arg, best, handed, since, scaleVars, otherVars>>

\* The health check and the loop over tm.tasks.  The two early returns run
\* the deferred Unlock.
Scan(c) ==
    /\ pc[c] = "locked"
    /\ IF Unhealthy(arg[c]) \/ healthStatus[arg[c]].IsProcessing
       THEN /\ pc' = [pc EXCEPT ![c] = "done"]
            /\ mutex' = Unlocked(c)
            /\ last' = Call("GetNextTask", arg[c], NilTask, NilTask)
            /\ best' = best
       ELSE /\ pc' = [pc EXCEPT ![c] = "selected"]
            /\ mutex' = mutex
            /\ last' = last
            /\ IF BestTasks(arg[c]) = {}
               THEN best' = best
               ELSE \E t \in BestTasks(arg[c]) : best' = [best EXCEPT ![c] = t]
    /\ UNCHANGED <<tasks, healthStatus, dropped, now, arg, handed, since, scaleVars, otherVars>>

\* The write to bestTask, the return and the deferred Unlock.
Commit(c) ==
    /\ pc[c] = "selected"
    /\ IF best[c] # NilTask
       THEN /\ tasks' = Assign(best[c], arg[c])
            /\ handed' = [handed EXCEPT ![best[c]] = @ \cup {c}]
            /\ since' = [d \in Callers |->
                    IF d # c /\ pc[d] \in {"waiting", "locked", "selected"}
                    THEN since[d] \cup {best[c]} ELSE since[d]]
       ELSE UNCHANGED <<tasks, handed, since>>
    /\ pc' = [pc EXCEPT ![c] = "done"]
    /\ mutex' = Unlocked(c)
    /\ last' = Call("GetNextTask", arg[c], NilTask, best[c])
    /\ UNCHANGED <<healthStatus, dropped, now, arg, best, scaleVars, otherVars>>

\* The other operations of the TaskManager take the same lock for their
\* whole body.  A task made pending by one of them can be handed out anew.
LockedAddTask(id, type, prio, outcome) ==
    /\ CanLock
    /\ AddTask(id, type, prio, outcome)
    /\ handed' = [handed EXCEPT ![id] = {}]
    /\ UNCHANGED <<mutex, pc, arg, best, since, scaleVars, otherVars>>

LockedUpdateTaskStatus(taskID, status) ==
    /\ CanLock
    /\ UpdateTaskStatus(taskID, status)
    /\ handed' = IF status = TaskStatusPending
                 THEN [handed EXCEPT ![taskID] = {}] ELSE handed
    /\ UNCHANGED <<mutex, pc, arg, best, since, scaleVars, otherVars>>

LockedHeartbeat(name, processing) ==
    /\ CanLock
    /\ monitorHealthEvents(name, now, processing, 0)
    /\ UNCHANGED <<lockVars, scaleVars, otherVars>>

\* ------------------------------------------------------------ autoscaler
\* OrchestratorInfrastructureAgent of infrastructure_agents.go.  CheckScaling
\* takes no lock: a goroutine's test of the cooldown and its test of the
\* metrics with the write to lastScaleTime are separate steps.
Scalers == 1..MaxScalers

SystemMetrics(cpu, mem, count, err) ==
    [CPUUsage |-> cpu, MemoryUsage |-> mem, TaskCount |-> count, ErrorRate |-> err]

\* Mutant: the cooldown is compared in another unit and never holds a call back.
CooldownActiveWrongUnit == FALSE

\* time.Since(o.lastScaleTime).Seconds() < float64(cooldownPeriod)
CooldownActive == now - lastScaleTime < cooldownPeriod

\* Mutant: a metric at its threshold counts as a breach.
BreachedAtThreshold ==
    \/ metrics.CPUUsage >= cpuThreshold
    \/ metrics.MemoryUsage >= memoryThreshold
    \/ metrics.TaskCount >= tasksThreshold
    \/ metrics.ErrorRate >= errorThreshold

Breached ==
    \/ metrics.CPUUsage > cpuThreshold
    \/ metrics.MemoryUsage > memoryThreshold
    \/ metrics.TaskCount > tasksThreshold
    \/ metrics.ErrorRate > errorThreshold

Triggered(t) == IF triggers = <<>> THEN <<t>> ELSE <<triggers[Len(triggers)], t>>

\* CheckScaling, first statement: the cooldown test.  method is the method the
\* goroutine called, CheckScaling itself or ScaleSystem.
CheckCooldown(s, method) ==
    /\ impl = "infrastructure_agents"
    /\ spc[s] \in {"idle", "done"}
    /\ via' = [via EXCEPT ![s] = method]
    /\ IF CooldownActive
       THEN /\ spc' = [spc EXCEPT ![s] = "done"]
            /\ sret' = [sret EXCEPT ![s] = FALSE]
       ELSE /\ spc' = [spc EXCEPT ![s] = "evaluate"]
            /\ sret' = sret
    /\ last' = Call("CheckCooldown", method, s, NilTask)
    /\ UNCHANGED <<tasks, healthStatus, dropped, now, lockVars, otherVars,
                   lastScaleTime, triggers, impl, infraVars, orchVars>>

\* Mutant: ScaleSystem goes on to scale whatever CheckScaling returned.
AfterCheckIgnoringResult(method, result) ==
    IF method = "ScaleSystem" THEN "scale" ELSE "done"

\* Where the goroutine is once CheckScaling has returned: ScaleSystem returns
\* at once unless the result is true.
AfterCheck(method, result) ==
    IF method = "ScaleSystem" /\ result THEN "scale" ELSE "done"

\* Mutant: the threshold test stamps lastScaleTime whatever its result.
EvaluateAlwaysStamps(s) ==
    /\ spc[s] = "evaluate"
    /\ lastScaleTime' = now
    /\ IF Breached
       THEN /\ sret' = [sret EXCEPT ![s] = TRUE]
            /\ triggers' = Triggered(now)
            /\ spc' = [spc EXCEPT ![s] = AfterCheck(via[s], TRUE)]
       ELSE /\ sret' = [sret EXCEPT ![s] = FALSE]
            /\ spc' = [spc EXCEPT ![s] = AfterCheck(via[s], FALSE)]
            /\ UNCHANGED triggers
    /\ last' = Call("Evaluate", via[s], s, NilTask)
    /\ UNCHANGED <<tasks, healthStatus, dropped, now, lockVars, otherVars, via, impl,
                   infraVars, orchVars>>

\* CheckScaling, second statement: the four threshold tests and the write to
\* lastScaleTime.
Evaluate(s) ==
    /\ spc[s] = "evaluate"
    /\ IF Breached
       THEN /\ lastScaleTime' = now
            /\ sret' = [sret EXCEPT ![s] = TRUE]
            /\ triggers' = Triggered(now)
            /\ spc' = [spc EXCEPT ![s] = AfterCheck(via[s], TRUE)]
       ELSE /\ sret' = [sret EXCEPT ![s] = FALSE]
            /\ spc' = [spc EXCEPT ![s] = AfterCheck(via[s], FALSE)]
            /\ UNCHANGED <<lastScaleTime, triggers>>
    /\ last' = Call("Evaluate", via[s], s, NilTask)
    /\ UNCHANGED <<tasks, healthStatus, dropped, now, lockVars, otherVars, via, impl,
                   infraVars, orchVars>>

\* Agent.Clone copies every field of the agent.
Clone(agent) == agent

\* ScaleSystem after CheckScaling returned true: under instancesLock, one
\* clone of the first instance is appended for every name that has instances.
ScaleOut(s) ==
    /\ spc[s] = "scale"
    /\ \A n \in DOMAIN instances : Len(instances[n]) < MaxInstances
    /\ instances' = [n \in DOMAIN instances |->
            IF Len(instances[n]) = 0 THEN instances[n]
            ELSE Append(instances[n], Clone(instances[n][1]))]
    /\ spc' = [spc EXCEPT ![s] = "done"]
    /\ last' = Call("ScaleOut", via[s], s, NilTask)
    /\ UNCHANGED <<tasks, healthStatus, dropped, now, lockVars, otherVars, lastScaleTime,
                   metrics, via, sret, triggers, impl, orchVars>>

\* RegisterAgent of infrastructure_agents.go.
InstancesOf(name) ==
    IF name \in DOMAIN instances THEN instances[name] ELSE <<>>

RegisterInstance(name) ==
    /\ impl = "infrastructure_agents"
    /\ Len(InstancesOf(name)) < MaxInstances
    /\ instances' = Put(instances, name, Append(InstancesOf(name), name))
    /\ last' = Call("RegisterAgent", name, NilTask, NilTask)
    /\ UNCHANGED <<tasks, healthStatus, dropped, now, lockVars, otherVars, lastScaleTime,
                   metrics, spc, via, sret, triggers, impl, orchVars>>

\* UpdateMetrics of the orchestrator: the pointer is replaced.
UpdateMetrics(m) ==
    /\ impl = "infrastructure_agents"
    /\ metrics' = m
    /\ last' = Call("UpdateMetrics", "", NilTask, NilTask)
    /\ UNCHANGED <<tasks, healthStatus, dropped, now, lockVars, otherVars, lastScaleTime,
                   instances, spc, via, sret, triggers, impl, orchVars>>

\* ---------------------------------------- autoscaler, second definition
\* OrchestratorInfrastructureAgent of orchestrator_infrastructure_agent.go,
\* with the observer of infrastructure_agents.go:365-439 and the constants of
\* scaling_config.go.  ScaleSystem takes no lock over lastScaleTime.
\* The fields of SystemMetrics that ScaleSystem reads (LastUpdate is only
\* written).
ObservedMetrics(cpu, mem, perAgent, errors) ==
    [CPUUsage |-> cpu, MemoryUsage |-> mem, TasksPerAgent |-> perAgent,
     ErrorCount |-> errors]

\* ObserverInfrastructureAgent.collectMetrics: CPU and memory are measured,
\* the other two figures are never written.
collectMetrics(cpu, mem) ==
    /\ impl = "orchestrator"
    /\ obsMetrics' = [obsMetrics EXCEPT !.CPUUsage = cpu, !.MemoryUsage = mem]
    /\ last' = Call("collectMetrics", "", NilTask, NilTask)
    /\ UNCHANGED <<tasks, healthStatus, dropped, now, lockVars, otherVars, lastScaleTime, spc, via,
                   sret, triggers, impl, infraVars,
                   agents, agentLock, visited, regName>>

\* time.Since(o.lastScaleTime) < SCALE_COOLDOWN
ScaleCooldownActive == now - lastScaleTime < SCALE_COOLDOWN

needsScaling ==
    \/ obsMetrics.CPUUsage > CPU_THRESHOLD
    \/ obsMetrics.MemoryUsage > MEMORY_THRESHOLD
    \/ obsMetrics.TasksPerAgent > TASKS_THRESHOLD
    \/ obsMetrics.ErrorCount > ERROR_THRESHOLD

\* sync.RWMutex: RLock waits while a writer holds the lock or waits for it,
\* Lock waits until no reader and no writer holds it.
CanRLock == agentLock.writer = NoHolder /\ agentLock.pending = {}
CanWLock == agentLock.writer = NoHolder /\ agentLock.readers = {}

\* ScaleSystem, the cooldown test.
OrchCooldown(s) ==
    /\ impl = "orchestrator"
    /\ spc[s] \in {"idle", "done"}
    /\ via' = [via EXCEPT ![s] = "ScaleSystem"]
    /\ spc' = [spc EXCEPT ![s] = IF ScaleCooldownActive THEN "done" ELSE "evaluate"]
    /\ sret' = [sret EXCEPT ![s] = FALSE]
    /\ last' = Call("OrchCooldown", "ScaleSystem", s, NilTask)
    /\ UNCHANGED <<tasks, healthStatus, dropped, now, lockVars, otherVars, lastScaleTime, triggers,
                   impl, infraVars, orchVars>>

\* ScaleSystem, the four tests on the observer's metrics.
OrchEvaluate(s) ==
    /\ impl = "orchestrator"
    /\ spc[s] = "evaluate"
    /\ sret' = [sret EXCEPT ![s] = needsScaling]
    /\ spc' = [spc EXCEPT ![s] = IF needsScaling THEN "rlock" ELSE "done"]
    /\ triggers' = IF needsScaling THEN Triggered(now) ELSE triggers
    /\ last' = Call("OrchEvaluate", "ScaleSystem", s, NilTask)
    /\ UNCHANGED <<tasks, healthStatus, dropped, now, lockVars, otherVars, lastScaleTime, via,
                   impl, infraVars, orchVars>>

\* scaleOut: o.agentLock.RLock()
OrchRLock(s) ==
    /\ spc[s] = "rlock"
    /\ CanRLock
    /\ agentLock' = [agentLock EXCEPT !.readers = @ \cup {s}]
    /\ visited' = [visited EXCEPT ![s] = {}]
    /\ spc' = [spc EXCEPT ![s] = "loop"]
    /\ last' = Call("RLock", "ScaleSystem", s, NilTask)
    /\ UNCHANGED <<tasks, healthStatus, dropped, now, lockVars, otherVars, lastScaleTime, via, sret,
                   triggers, impl, infraVars, obsMetrics, agents, regName>>

\* health != nil && health.IsProcessing && health.ProcessingTime > 5.0
Overloaded(name) ==
    /\ name \in DOMAIN healthStatus
    /\ healthStatus[name].IsProcessing
    /\ healthStatus[name].ProcessingTime > OverloadSeconds

\* The name of a clone: the template's name and a timestamp.
CloneName(name) == name \o "_" \o ToString(now)

\* scaleOut, one agent of the loop: an overloaded agent is cloned and
\* RegisterAgent is called for the clone, which asks for the write lock.
OrchLoop(s) ==
    /\ spc[s] = "loop"
    /\ \E a \in agents \ visited[s] :
        /\ visited' = [visited EXCEPT ![s] = @ \cup {a}]
        /\ IF Overloaded(a)
           THEN /\ regName' = [regName EXCEPT ![s] = CloneName(a)]
                /\ agentLock' = [agentLock EXCEPT !.pending = @ \cup {s}]
                /\ spc' = [spc EXCEPT ![s] = "wlock"]
           ELSE UNCHANGED <<regName, agentLock, spc>>
    /\ last' = Call("scaleOut", "ScaleSystem", s, NilTask)
    /\ UNCHANGED <<tasks, healthStatus, dropped, now, lockVars, otherVars, lastScaleTime, via, sret,
                   triggers, impl, infraVars, obsMetrics, agents>>

\* scaleOut, after the loop: the deferred RUnlock, and back in ScaleSystem
\* o.lastScaleTime = time.Now().
OrchWrite(s) ==
    /\ spc[s] = "loop"
    /\ agents \subseteq visited[s]
    /\ agentLock' = [agentLock EXCEPT !.readers = @ \ {s}]
    /\ lastScaleTime' = now
    /\ spc' = [spc EXCEPT ![s] = "done"]
    /\ visited' = [visited EXCEPT ![s] = {}]
    /\ last' = Call("OrchWrite", "ScaleSystem", s, NilTask)
    /\ UNCHANGED <<tasks, healthStatus, dropped, now, lockVars, otherVars, via, sret, triggers,
                   impl, infraVars, obsMetrics, agents, regName>>

\* RegisterAgent called from outside: the goroutine asks for the write lock.
OrchRegisterCall(s, name) ==
    /\ impl = "orchestrator"
    /\ spc[s] \in {"idle", "done"}
    /\ Cardinality(agents) < MaxInstances
    /\ via' = [via EXCEPT ![s] = "RegisterAgent"]
    /\ regName' = [regName EXCEPT ![s] = name]
    /\ agentLock' = [agentLock EXCEPT !.pending = @ \cup {s}]
    /\ spc' = [spc EXCEPT ![s] = "wlock"]
    /\ last' = Call("RegisterAgent", name, s, NilTask)
    /\ UNCHANGED <<tasks, healthStatus, dropped, now, lockVars, otherVars, lastScaleTime, sret,
                   triggers, impl, infraVars, obsMetrics, agents, visited>>

\* RegisterAgent: o.agentLock.Lock() returns.
OrchWLock(s) ==
    /\ spc[s] = "wlock"
    /\ CanWLock
    /\ agentLock' = [agentLock EXCEPT !.writer = s, !.pending = @ \ {s}]
    /\ spc' = [spc EXCEPT ![s] = "register"]
    /\ last' = Call("Lock", via[s], s, NilTask)
    /\ UNCHANGED <<tasks, healthStatus, dropped, now, lockVars, otherVars, lastScaleTime, via, sret,
                   triggers, impl, infraVars, obsMetrics, agents, visited, regName>>

\* RegisterAgent: o.agents[agent.Name] = agent and the deferred Unlock; a
\* call made by scaleOut goes on with the loop.
OrchRegister(s) ==
    /\ spc[s] = "register"
    /\ agents' = agents \cup {regName[s]}
    /\ agentLock' = [agentLock EXCEPT !.writer = NoHolder]
    /\ spc' = [spc EXCEPT ![s] =
            IF via[s] = "ScaleSystem" THEN "loop" ELSE "done"]
    /\ last' = Call("Registered", via[s], s, NilTask)
    /\ UNCHANGED <<tasks, healthStatus, dropped, now, lockVars, otherVars, lastScaleTime, via, sret,
                   triggers, impl, infraVars, obsMetrics, visited, regName>>

\* A heartbeat reaches the TaskManager the orchestrator owns; the publisher
\* stamped it at the time of construction.
OrchHeartbeat(name, processing, ptime) ==
    /\ impl = "orchestrator"
    /\ monitorHealthEvents(name, 0, processing, ptime)
    /\ UNCHANGED <<lockVars, scaleVars, otherVars>>

\* ------------------------------------------------------------ aggregator
\* ObserverInfrastructureAgent of infrastructure_agents.go:43-278.  Figures
\* are whole numbers (error rates in hundredths); the inputs are even, so
\* that the mean over a population of one or two is exact.
AgentMetrics(cpu, mem, queued, err) ==
    [CPU |-> cpu, Memory |-> mem, TasksInQueue |-> queued, ErrorRate |-> err]

\* StartMonitoring(agents...): every agent gets a fresh AgentMetrics and the
\* collection loop is started.
StartMonitoring(names) ==
    /\ metricsMap' = [n \in DOMAIN metricsMap \cup names |->
            IF n \in names THEN AgentMetrics(0, 0, 0, 0) ELSE metricsMap[n]]
    /\ monitoring' = TRUE
    /\ last' = Call("StartMonitoring", "", NilTask, NilTask)
    /\ UNCHANGED <<tasks, healthStatus, dropped, now, lockVars, scaleVars, systemMetrics,
                   workerVars, memVars,
                   loopVars, restVars>>

\* UpdateMetrics of the observer: the agent's entry is replaced.
ObserverUpdateMetrics(name, m) ==
    /\ metricsMap' = Put(metricsMap, name, m)
    /\ last' = Call("ObserverUpdateMetrics", name, NilTask, NilTask)
    /\ UNCHANGED <<tasks, healthStatus, dropped, now, lockVars, scaleVars, systemMetrics,
                   monitoring, workerVars, memVars,
                   loopVars, restVars>>

RECURSIVE Sum(_, _)
\* The total of one figure over the agents of S.
Sum(f, S) ==
    IF S = {} THEN 0
    ELSE LET n == CHOOSE x \in S : TRUE IN f[n] + Sum(f, S \ {n})

\* What a float64 division by zero gives.
NaN == -1

\* total / float64(agentCount)
Mean(total, agentCount) ==
    IF agentCount = 0 THEN NaN ELSE total \div agentCount

\* Mutant: the snapshot is written also when no agent was met.
AggregatesAlways(agentCount) == TRUE

\* if agentCount > 0
Aggregates(agentCount) == agentCount > 0

\* The snapshot after one pass of the loop over the map m.
Snapshot(m) ==
    LET agentCount == Cardinality(DOMAIN m)
        total(field) == Sum([n \in DOMAIN m |-> m[n][field]], DOMAIN m)
    IN  IF Aggregates(agentCount)
        THEN SystemMetrics(Mean(total("CPU"), agentCount),
                           Mean(total("Memory"), agentCount),
                           total("TasksInQueue"),
                           Mean(total("ErrorRate"), agentCount))
        ELSE systemMetrics

\* One tick of collectMetrics: every agent's CPU and Memory are measured anew
\* (measured[n] is the pair read for agent n), then the snapshot is folded.
ObserverCollectMetrics(measured) ==
    /\ monitoring
    /\ LET m == [n \in DOMAIN metricsMap |->
                   [metricsMap[n] EXCEPT !.CPU = measured[n][1],
                                         !.Memory = measured[n][2]]]
       IN  /\ metricsMap' = m
           /\ systemMetrics' = Snapshot(m)
    /\ last' = Call("ObserverCollectMetrics", "", NilTask, NilTask)
    /\ UNCHANGED <<tasks, healthStatus, dropped, now, lockVars, scaleVars, monitoring,
                   workerVars, memVars,
                   loopVars, restVars>>

\* ---------------------------------------------------------------- worker
\* The poll loop of a worker, on the return of the executor: the estimate of
\* the processing time is recomputed from the duration of the task.
\* Durations are whole numbers of eighths of a second, so that three
\* halvings are exact.
\* Mutant: the estimate is the latest duration.
EmaLatestOnly(old, duration) == duration

\* The exponential moving average with smoothing factor 0.5.
Ema(old, duration) == (old + duration) \div 2

\* The first observation seeds the estimate, the later ones are folded in.
CompleteTask(duration) ==
    /\ Len(durations) < MaxCompleted
    /\ estimate' = IF durations = <<>> THEN duration ELSE Ema(estimate, duration)
    /\ durations' = Append(durations, duration)
    /\ last' = Call("CompleteTask", "", NilTask, NilTask)
    /\ UNCHANGED <<tasks, healthStatus, dropped, now, mapVars, lockVars, scaleVars, aggVars, memVars,
                   loopVars, restVars>>

\* ------------------------------------------------------ HybridMemoryManager
\* The two tiers of the memory manager. A Redis key is built from the agent
\* and the memory ID; a MongoDB document is keyed by the memory ID alone
\* (bson "_id"), so InsertOne rejects a second document with the same ID.
\* Importance is counted in tenths.
MemAgents == {"a1", "a2"}
MemIDs == {"m1", "m2"}
Importances == {6, 7}
ShortTerm == "short_term"
LongTerm == "long_term"
MemoryTypes == {ShortTerm, LongTerm}
ImportanceThreshold == 7

\* time.Time.Unix(): the whole seconds of an instant given in milliseconds.
Second == 1000
Unix(t) == t \div Second

\* fmt.Sprintf("memory_%s_%d", a.ID, time.Now().Unix())
MemorizeID(agentID, t) == "memory_" \o agentID \o "_" \o ToString(Unix(t))

\* The IDs under which memories are stored: those callers of StoreMemory
\* choose and those Memorize makes.
StoredIDs ==
    MemIDs \cup {MemorizeID(a, sec * Second) : a \in MemAgents, sec \in 0..Unix(MaxWall)}
MemKeys == MemAgents \X StoredIDs

Memory(agentID, importance, type) ==
    [AgentID |-> agentID, Importance |-> importance, Type |-> type]
NoMemory == Memory("", 0, "")

\* InsertOne: refused on an error of the driver or on a duplicate _id.
InsertOne(collection, id, memory, fails) ==
    IF fails THEN collection
    ELSE IF collection[id] # NoMemory THEN collection
    ELSE [collection EXCEPT ![id] = memory]

\* StoreMemory: a short-term memory is SET under its Redis key (replacing
\* what was there), any other is inserted in the collection; an error of
\* either store is returned and nothing is written.
StoreMemory(agentID, id, importance, type, fails) ==
    LET memory == Memory(agentID, importance, type) IN
    /\ IF type = ShortTerm
       THEN /\ shortTerm' = IF fails THEN shortTerm
                            ELSE [shortTerm EXCEPT ![<<agentID, id>>] = memory]
            /\ UNCHANGED longTerm
       ELSE /\ longTerm' = InsertOne(longTerm, id, memory, fails)
            /\ UNCHANGED shortTerm
    /\ last' = Call("StoreMemory", agentID, NilTask, NilTask)
    /\ UNCHANGED <<tasks, healthStatus, dropped, now, mapVars, lockVars, scaleVars,
                   aggVars, workerVars, loopVars, restVars, wall>>

\* The memories of the agent that the scan finds, can read and decode, and
\* whose importance reaches the threshold.
Important(agentID, unreadable) ==
    {id \in StoredIDs : /\ shortTerm[<<agentID, id>>] # NoMemory
                        /\ id \notin unreadable
                        /\ shortTerm[<<agentID, id>>].Importance >= ImportanceThreshold}

\* Those of them that StoreMemory wrote to the collection.
Inserted(important, rejected) ==
    {id \in important : id \notin rejected /\ longTerm[id] = NoMemory}

\* Mutant: the key is removed whether or not the insert succeeded.
DeletedUnstored(important, inserted, undeleted) == important \ undeleted

\* The keys removed from Redis: Del runs only after StoreMemory returned nil
\* (its own error is ignored).
Deleted(important, inserted, undeleted) == inserted \ undeleted

\* ConsolidateMemories: every failure inside the loop is a continue, the
\* call returns nil.
ConsolidateMemories(agentID, unreadable, rejected, undeleted) ==
    LET important == Important(agentID, unreadable)
        inserted == Inserted(important, rejected)
        deleted == Deleted(important, inserted, undeleted)
    IN  /\ longTerm' = [id \in StoredIDs |->
               IF id \in inserted
               THEN [shortTerm[<<agentID, id>>] EXCEPT !.Type = LongTerm]
               ELSE longTerm[id]]
        /\ shortTerm' = [k \in MemKeys |->
               IF k[1] = agentID /\ k[2] \in deleted THEN NoMemory
               ELSE shortTerm[k]]
        /\ last' = [Call("ConsolidateMemories", agentID, NilTask, NilTask)
                        EXCEPT !.msg = <<[unreadable |-> unreadable,
                                          rejected |-> rejected,
                                          undeleted |-> undeleted]>>]
        /\ UNCHANGED <<tasks, healthStatus, dropped, now, mapVars, lockVars, scaleVars,
                       aggVars, workerVars, loopVars, restVars, wall>>

\* Memorize: the memory gets an ID made of the agent's ID and the second of
\* the call, and goes to StoreMemory, whose error is returned.
Memorize(agentID, importance, isLongTerm, fails) ==
    LET id == MemorizeID(agentID, wall)
        memType == IF isLongTerm THEN LongTerm ELSE ShortTerm
        memory == Memory(agentID, importance, memType)
        stored == IF isLongTerm THEN InsertOne(longTerm, id, memory, fails)
                  ELSE IF fails THEN shortTerm
                  ELSE [shortTerm EXCEPT ![<<agentID, id>>] = memory]
        err == IF isLongTerm THEN stored = longTerm ELSE fails
    IN  /\ IF isLongTerm
           THEN longTerm' = stored /\ UNCHANGED shortTerm
           ELSE shortTerm' = stored /\ UNCHANGED longTerm
        /\ last' = [Call("Memorize", agentID, NilTask, NilTask) EXCEPT
                        !.err = IF err THEN "store" ELSE "",
                        !.msg = <<[ID |-> id, Type |-> memType, fails |-> fails]>>]
        /\ UNCHANGED <<tasks, healthStatus, dropped, now, mapVars, lockVars, scaleVars,
                       aggVars, workerVars, loopVars, restVars, wall>>

\* Time passes in the agents' process.
Pass ==
    /\ wall + WallStep <= MaxWall
    /\ wall' = wall + WallStep
    /\ last' = Call("Pass", "", NilTask, NilTask)
    /\ UNCHANGED <<tasks, healthStatus, dropped, now, mapVars, lockVars, scaleVars,
                   aggVars, workerVars, loopVars, restVars, shortTerm, longTerm>>


\* ------------------------------------------- the observer's monitoring loop
\* NewObserverInfrastructureAgent starts startMonitoring in a goroutine; the
\* goroutine waits in a select on the ticker's channel and on stopChan.
\* time.Ticker: the channel holds one tick, a tick that finds it full is
\* dropped; the deferred ticker.Stop ends the ticks when the loop returns.
Ticker ==
    /\ loopPc # "returned"
    /\ ~tickReady
    /\ tickReady' = TRUE
    /\ last' = Call("Ticker", "", NilTask, NilTask)
    /\ UNCHANGED <<tasks, healthStatus, dropped, now, mapVars, lockVars, scaleVars,
                   aggVars, workerVars, memVars, restVars, loopPc, stopClosed>>

\* case <-ticker.C: the select takes the tick. When stopChan is closed too,
\* both cases are ready and the select takes either.
SelectTick ==
    /\ loopPc = "select"
    /\ tickReady
    /\ tickReady' = FALSE
    /\ loopPc' = "collecting"
    /\ last' = Call("SelectTick", "", NilTask, NilTask)
    /\ UNCHANGED <<tasks, healthStatus, dropped, now, mapVars, lockVars, scaleVars,
                   aggVars, workerVars, memVars, restVars, stopClosed>>

\* o.collectMetrics() called from the loop, which then selects again.
LoopCollectMetrics(cpu, mem) ==
    /\ loopPc = "collecting"
    /\ obsMetrics' = [obsMetrics EXCEPT !.CPUUsage = cpu, !.MemoryUsage = mem]
    /\ loopPc' = "select"
    /\ last' = Call("collectMetrics", "", NilTask, NilTask)
    /\ UNCHANGED <<tasks, healthStatus, dropped, now, mapVars, lockVars, aggVars,
                   workerVars, memVars, restVars, tickReady, stopClosed, lastScaleTime,
                   spc, via, sret, triggers, impl, infraVars,
                   agents, agentLock, visited, regName>>

\* case <-o.stopChan: return.
SelectStop ==
    /\ loopPc = "select"
    /\ stopClosed
    /\ loopPc' = "returned"
    /\ tickReady' = FALSE
    /\ last' = Call("SelectStop", "", NilTask, NilTask)
    /\ UNCHANGED <<tasks, healthStatus, dropped, now, mapVars, lockVars, scaleVars,
                   aggVars, workerVars, memVars, restVars, stopClosed>>

\* Stop: close(o.stopChan) and return, without waiting for the goroutine.
\* Closing a closed channel panics.
Stop ==
    /\ stopClosed' = TRUE
    /\ last' = [Call("Stop", "", NilTask, NilTask)
                    EXCEPT !.err = IF stopClosed THEN "panic" ELSE ""]
    /\ UNCHANGED <<tasks, healthStatus, dropped, now, mapVars, lockVars, scaleVars,
                   aggVars, workerVars, memVars, restVars, loopPc, tickReady>>

\* ------------------------------------- a reader of the observer's metrics
\* GetSystemMetrics takes the read lock, returns the pointer o.metrics and
\* releases the lock: the caller holds the observer's own struct, not a copy.
GetSystemMetrics ==
    /\ rpc \in {"idle", "done"}
    /\ obtained' = obsMetrics
    /\ seen' = ObservedMetrics(0, 0, 0, 0)
    /\ rpc' = "got"
    /\ last' = Call("GetSystemMetrics", "", NilTask, NilTask)
    /\ UNCHANGED <<tasks, healthStatus, dropped, now, hiveVars, mapVars, lockVars, scaleVars,
                   aggVars, workerVars, memVars, loopVars>>

\* ScaleSystem: metrics.CPUUsage > CPU_THRESHOLD, read through the pointer
\* without the lock.
ReadCPUUsage ==
    /\ rpc = "got"
    /\ seen' = [seen EXCEPT !.CPUUsage = obsMetrics.CPUUsage]
    /\ rpc' = "cpu"
    /\ last' = Call("ReadCPUUsage", "", NilTask, NilTask)
    /\ UNCHANGED <<tasks, healthStatus, dropped, now, hiveVars, mapVars, lockVars, scaleVars,
                   aggVars, workerVars, memVars, loopVars, obtained>>

\* ScaleSystem: metrics.MemoryUsage > MEMORY_THRESHOLD.
ReadMemoryUsage ==
    /\ rpc = "cpu"
    /\ seen' = [seen EXCEPT !.MemoryUsage = obsMetrics.MemoryUsage]
    /\ rpc' = "done"
    /\ last' = Call("ReadMemoryUsage", "", NilTask, NilTask)
    /\ UNCHANGED <<tasks, healthStatus, dropped, now, hiveVars, mapVars, lockVars, scaleVars,
                   aggVars, workerVars, memVars, loopVars, obtained>>

\* ------------------------------------------ the aggregator's map, locked
\* The operations on metricsMap, each from the moment it starts to touch the
\* map to the moment it has finished. UpdateMetrics and the collection tick
\* take metricsMapLock.Lock(), GetMetrics takes RLock(); StartMonitoring
\* writes the map with no lock at all.
MapOperations == {"StartMonitoring", "collectMetrics", "UpdateMetrics", "GetMetrics"}

MapBegin(a) ==
    /\ a \notin inMap
    /\ a = "collectMetrics" => monitoring
    /\ IF a = "StartMonitoring" THEN mapLock' = mapLock
       ELSE IF a = "GetMetrics"
       THEN /\ mapLock.writer = ""
            /\ mapLock' = [mapLock EXCEPT !.readers = @ \cup {a}]
       ELSE /\ mapLock.writer = ""
            /\ mapLock.readers = {}
            /\ mapLock' = [mapLock EXCEPT !.writer = a]
    /\ inMap' = inMap \cup {a}
    /\ last' = Call("MapBegin", a, NilTask, NilTask)
    /\ UNCHANGED <<tasks, healthStatus, dropped, now, lockVars, scaleVars,
                   aggVars, workerVars, memVars, loopVars, restVars>>

\* The operation has finished with the map; a deferred Unlock or RUnlock
\* runs if it took the lock.
MapEnd(a) ==
    /\ a \in inMap
    /\ inMap' = inMap \ {a}
    /\ mapLock' = [writer |-> IF mapLock.writer = a THEN "" ELSE mapLock.writer,
                   readers |-> mapLock.readers \ {a}]

\* GetMetrics returns o.metricsMap[agentName].
GetMetrics(name) ==
    /\ last' = Call("GetMetrics", name, NilTask, NilTask)
    /\ UNCHANGED <<tasks, healthStatus, dropped, now, lockVars, scaleVars,
                   aggVars, workerVars, memVars, loopVars, restVars>>

\* ------------------------------------------- HiveMind, OrchestratorAgent
\* The agents and the task objects callers pass in; a task object keeps its
\* Agent field between calls. The orchestrator is an agent itself and makes
\* a task of its own for every evaluation.
HiveAgents == {"writer", "reviewer"}
HiveTasks == {"t1", "t2"}
Orchestrator == "Orchestrator"
Evaluation == "evaluation"
AllHiveTasks == HiveTasks \cup {Evaluation}
Approved == "APROVADO"

\* What the request to the API returns: a result, or an error of the
\* transport or an answer without choices.
ExecuteOutcomes == {"", "do", "choices"}

\* Mutant: the lists are emptied once the request was sent, whatever came
\* back.
ClearedAfterRequest(err) == err \notin {"no task", "no agent"}

\* The lists are emptied on the way to the successful return only.
Cleared(err) == err = ""

\* Execute on the lists as, ts and the task objects' agents ta: the first
\* task is taken, its Agent defaults to the first agent of the list, and the
\* request is made as that agent. The record holds the lists afterwards,
\* the task executed, the agent acted as and the error returned.
Executed(as, ts, ta, outcome) ==
    IF ts = <<>>
    THEN [Agents |-> as, Tasks |-> ts, taskAgent |-> ta,
          task |-> "", agent |-> "", err |-> "no task"]
    ELSE LET task == ts[1]
             agent == IF ta[task] = "" /\ as # <<>> THEN as[1] ELSE ta[task]
             err == IF agent = "" THEN "no agent" ELSE outcome
         IN  [Agents |-> IF Cleared(err) THEN <<>> ELSE as,
              Tasks |-> IF Cleared(err) THEN <<>> ELSE ts,
              taskAgent |-> [ta EXCEPT ![task] = agent],
              task |-> IF agent = "" THEN "" ELSE task,
              agent |-> agent, err |-> err]

Returned(op, agent, task, r) ==
    [Call(op, agent, NilTask, NilTask) EXCEPT
        !.err = r.err,
        !.msg = <<[passed |-> task, task |-> r.task, agent |-> r.agent]>>]

AssignAgents(agent) ==
    /\ Len(hmAgents) < MaxAssigned
    /\ hmAgents' = Append(hmAgents, agent)
    /\ last' = Call("AssignAgents", agent, NilTask, NilTask)
    /\ UNCHANGED <<tasks, healthStatus, dropped, now, lockVars, scaleVars,
                   aggVars, workerVars, memVars, loopVars, mapVars, readVars,
                   hmTasks, taskAgent, totalScore>>

AssignTasks(task) ==
    /\ Len(hmTasks) < MaxAssigned
    /\ hmTasks' = Append(hmTasks, task)
    /\ last' = Call("AssignTasks", "", NilTask, NilTask)
    /\ UNCHANGED <<tasks, healthStatus, dropped, now, lockVars, scaleVars,
                   aggVars, workerVars, memVars, loopVars, mapVars, readVars,
                   hmAgents, taskAgent, totalScore>>

Execute(outcome) ==
    LET r == Executed(hmAgents, hmTasks, taskAgent, outcome) IN
    /\ hmAgents' = r.Agents
    /\ hmTasks' = r.Tasks
    /\ taskAgent' = r.taskAgent
    /\ last' = Returned("Execute", "", "", r)
    /\ UNCHANGED <<tasks, healthStatus, dropped, now, lockVars, scaleVars,
                   aggVars, workerVars, memVars, loopVars, mapVars, readVars,
                   totalScore>>

\* DelegateTask: the agent and the task are appended to the HiveMind's
\* lists, then Execute runs.
DelegateTask(agent, task, outcome) ==
    LET r == Executed(Append(hmAgents, agent), Append(hmTasks, task),
                      taskAgent, outcome) IN
    /\ Len(hmAgents) < MaxAssigned
    /\ Len(hmTasks) < MaxAssigned
    /\ hmAgents' = r.Agents
    /\ hmTasks' = r.Tasks
    /\ taskAgent' = r.taskAgent
    /\ last' = Returned("DelegateTask", agent, task, r)
    /\ UNCHANGED <<tasks, healthStatus, dropped, now, lockVars, scaleVars,
                   aggVars, workerVars, memVars, loopVars, mapVars, readVars,
                   totalScore>>

\* EvaluateContent: a new task whose Agent is the orchestrator goes through
\* the same lists; an approving result adds the score.
EvaluateContent(result, score, outcome) ==
    LET r == Executed(Append(hmAgents, Orchestrator),
                      Append(hmTasks, Evaluation),
                      [taskAgent EXCEPT ![Evaluation] = Orchestrator], outcome)
    IN
    /\ Len(hmAgents) < MaxAssigned
    /\ Len(hmTasks) < MaxAssigned
    /\ totalScore + score <= MaxScore
    /\ hmAgents' = r.Agents
    /\ hmTasks' = r.Tasks
    /\ taskAgent' = r.taskAgent
    /\ totalScore' = IF r.err = "" /\ result = Approved
                     THEN totalScore + score ELSE totalScore
    /\ last' = Returned("EvaluateContent", Orchestrator, Evaluation, r)
    /\ UNCHANGED <<tasks, healthStatus, dropped, now, lockVars, scaleVars,
                   aggVars, workerVars, memVars, loopVars, mapVars, readVars>>

\* ---------------------------------------------------------- specification
\* NewTaskManager: both maps empty, the lock free, no call in progress.
\* NewOrchestratorInfrastructureAgent: lastScaleTime is the time of
\* construction, the metrics are zero, nothing is registered.
InitState ==
    /\ tasks = <<>>
    /\ healthStatus = <<>>
    /\ dropped = FALSE
    /\ now = 0
    /\ last = Call("NewTaskManager", "", NilTask, NilTask)
    /\ mutex = NoHolder
    /\ pc = [c \in Callers |-> "idle"]
    /\ arg = [c \in Callers |-> "quiz"]
    /\ best = [c \in Callers |-> NilTask]
    /\ handed = [t \in TaskIDs |-> {}]
    /\ since = [c \in Callers |-> {}]
    /\ lastScaleTime = now
    /\ metrics = SystemMetrics(0, 0, 0, 0)
    /\ instances = <<>>
    /\ spc = [s \in Scalers |-> "idle"]
    /\ via = [s \in Scalers |-> "CheckScaling"]
    /\ sret = [s \in Scalers |-> FALSE]
    /\ triggers = <<>>
    /\ obsMetrics = ObservedMetrics(0, 0, 0, 0)
    /\ agents = {}
    /\ agentLock = [readers |-> {}, writer |-> NoHolder, pending |-> {}]
    /\ visited = [s \in Scalers |-> {}]
    /\ regName = [s \in Scalers |-> ""]
    /\ metricsMap = <<>>
    /\ systemMetrics = SystemMetrics(0, 0, 0, 0)
    /\ monitoring = FALSE
    /\ estimate = 0
    /\ durations = <<>>
    /\ shortTerm = [k \in MemKeys |-> NoMemory]
    /\ longTerm = [id \in StoredIDs |-> NoMemory]
    /\ wall = 0
    /\ loopPc = "select"
    /\ tickReady = FALSE
    /\ stopClosed = FALSE
    /\ mapLock = [writer |-> "", readers |-> {}]
    /\ inMap = {}
    /\ rpc = "idle"
    /\ hmAgents = <<>>
    /\ hmTasks = <<>>
    /\ taskAgent = [t \in AllHiveTasks |-> ""]
    /\ totalScore = 0
    /\ obtained = ObservedMetrics(0, 0, 0, 0)
    /\ seen = ObservedMetrics(0, 0, 0, 0)

Init == InitState /\ impl = "infrastructure_agents"

\* Either definition of the autoscaler is the one built.
InitScale == InitState /\ impl \in {"infrastructure_agents", "orchestrator"}

HeartbeatTimes == {t \in 0..MaxTime : t % TickStep = 0}

\* The task store and dispatcher at one instant of the clock, each operation
\* in one step (every operation holds the lock from its first line to its
\* return).
Others == UNCHANGED <<lockVars, scaleVars, otherVars>>

Next ==
    \/ \E id \in TaskIDs, type \in TaskTypes, prio \in Priorities :
           AddTask(id, type, prio, "") /\ Others
    \/ \E name \in AgentNames, p \in BOOLEAN :
           monitorHealthEvents(name, now, p, 0) /\ Others
    \/ \E name \in AgentNames : GetNextTask(name) /\ Others
    \/ \E id \in TaskIDs, s \in TaskStatuses :
           UpdateTaskStatus(id, s) /\ Others

Spec == Init /\ [][Next]_vars

\* The same operations while time passes, on TimedTasks task IDs.
NextClock ==
    \/ \E id \in 1..TimedTasks, type \in TaskTypes, prio \in Priorities :
           AddTask(id, type, prio, "") /\ Others
    \/ \E name \in AgentNames, hb \in HeartbeatTimes, p \in BOOLEAN :
           monitorHealthEvents(name, hb, p, 0) /\ Others
    \/ \E name \in AgentNames :
           monitorHealthEventsMalformed(name, now, TRUE, 0) /\ Others
    \/ \E name \in AgentNames : GetNextTask(name) /\ Others
    \/ \E id \in 1..TimedTasks, s \in TaskStatuses :
           UpdateTaskStatus(id, s) /\ Others
    \/ Tick /\ Others

SpecClock == Init /\ [][NextClock]_vars

\* Tasks of one type and one priority, added at different instants and
\* polled by one worker.
NextOrder ==
    \/ \E id \in TaskIDs : AddTask(id, "quiz", PriorityHigh, "") /\ Others
    \/ monitorHealthEvents("quiz", now, FALSE, 0) /\ Others
    \/ GetNextTask("quiz") /\ Others
    \/ \E id \in TaskIDs : UpdateTaskStatus(id, TaskStatusComplete) /\ Others
    \/ Tick /\ Others

SpecOrder == Init /\ [][NextOrder]_vars

\* A broker that is down for the whole run: every AddTask fails to serialize
\* or to publish its event.
NextUnpublished ==
    \/ \E id \in TaskIDs, type \in TaskTypes,
          prio \in {PriorityNormal, PriorityHigh},
          outcome \in PublishOutcomes \ {""} :
           AddTask(id, type, prio, outcome) /\ Others
    \/ \E name \in AgentNames, p \in BOOLEAN :
           monitorHealthEvents(name, now, p, 0) /\ Others
    \/ \E name \in AgentNames : GetNextTask(name) /\ Others
    \/ \E id \in TaskIDs, s \in {TaskStatusRunning, TaskStatusComplete} :
           UpdateTaskStatus(id, s) /\ Others

SpecUnpublished == Init /\ [][NextUnpublished]_vars

\* A finite set of tasks, each added once with any value of its priority
\* field, and one worker that stays live, keeps polling and completes what
\* it was given. TaskPriority is an int: a task whose Priority was never set
\* holds 0.
PriorityUnset == 0

NextDrain ==
    \/ \E id \in TaskIDs \ DOMAIN tasks,
          prio \in {PriorityUnset, PriorityLow, PriorityHigh} :
           AddTask(id, "quiz", prio, "") /\ Others
    \/ monitorHealthEvents("quiz", now, FALSE, 0) /\ Others
    \/ GetNextTask("quiz") /\ Others
    \/ \E id \in {t \in DOMAIN tasks : tasks[t].Status = TaskStatusAssigned} :
           UpdateTaskStatus(id, TaskStatusComplete) /\ Others

\* The worker's heartbeat timer and its poll loop never stop.
SpecDrain ==
    /\ Init
    /\ [][NextDrain]_vars
    /\ WF_vars(monitorHealthEvents("quiz", now, FALSE, 0) /\ Others)
    /\ WF_vars(GetNextTask("quiz") /\ Others)

\* Goroutines inside GetNextTask, interleaved with each other and with the
\* other operations, for workers of one type.
NextLock ==
    \/ \E c \in Callers : Enter(c, "quiz")
    \/ \E c \in Callers : Lock(c)
    \/ \E c \in Callers : Scan(c)
    \/ \E c \in Callers : Commit(c)
    \/ \E id \in TaskIDs, prio \in {PriorityNormal, PriorityHigh},
          outcome \in PublishOutcomes :
           LockedAddTask(id, "quiz", prio, outcome)
    \/ \E id \in TaskIDs, s \in {TaskStatusPending, TaskStatusRunning} :
           LockedUpdateTaskStatus(id, s)
    \/ \E p \in BOOLEAN : LockedHeartbeat("quiz", p)

SpecLock == Init /\ [][NextLock]_vars

\* The metrics handed to UpdateMetrics: every figure at its threshold, one
\* figure above it, or all four above.
AtThreshold ==
    SystemMetrics(cpuThreshold, memoryThreshold, tasksThreshold, errorThreshold)

MetricInputs ==
    {AtThreshold,
     [AtThreshold EXCEPT !.CPUUsage = @ + 1],
     [AtThreshold EXCEPT !.MemoryUsage = @ + 1],
     [AtThreshold EXCEPT !.TaskCount = @ + 1],
     [AtThreshold EXCEPT !.ErrorRate = @ + 1],
     SystemMetrics(cpuThreshold + 1, memoryThreshold + 1,
                   tasksThreshold + 1, errorThreshold + 1)}

\* The autoscaler: goroutines calling CheckScaling and ScaleSystem while the
\* metrics change and time passes.
NextScale ==
    \/ \E s \in Scalers, method \in {"CheckScaling", "ScaleSystem"} :
           CheckCooldown(s, method)
    \/ \E s \in Scalers : Evaluate(s)
    \/ \E s \in Scalers : ScaleOut(s)
    \/ RegisterInstance("quiz")
    \/ \E m \in MetricInputs : UpdateMetrics(m)
    \/ \E cpu \in {CPU_THRESHOLD, CPU_THRESHOLD + 1},
          mem \in {MEMORY_THRESHOLD, MEMORY_THRESHOLD + 1} :
           collectMetrics(cpu, mem)
    \/ \E s \in Scalers : OrchCooldown(s)
    \/ \E s \in Scalers : OrchEvaluate(s)
    \/ \E s \in Scalers : OrchRLock(s)
    \/ \E s \in Scalers : OrchLoop(s)
    \/ \E s \in Scalers : OrchWrite(s)
    \/ \E s \in Scalers : OrchRegisterCall(s, "quiz")
    \/ \E s \in Scalers : OrchWLock(s)
    \/ \E s \in Scalers : OrchRegister(s)
    \/ \E p \in BOOLEAN, ptime \in {OverloadSeconds, OverloadSeconds + 1} :
           OrchHeartbeat("quiz", p, ptime)
    \/ Advance(ScaleTickStep, MaxScaleTime) /\ Others

SpecScale == InitScale /\ [][NextScale]_vars

\* Two workers of different names poll, each for the tasks of its own name.
WorkerOf(c) == IF c = 1 THEN "quiz" ELSE "challenge"

NextExec ==
    \/ \E c \in Callers : Enter(c, WorkerOf(c))
    \/ \E c \in Callers : Lock(c)
    \/ \E c \in Callers : Scan(c)
    \/ \E c \in Callers : Commit(c)
    \/ \E id \in TaskIDs, type \in TaskTypes :
           LockedAddTask(id, type, PriorityNormal, "")
    \/ \E id \in TaskIDs : LockedUpdateTaskStatus(id, TaskStatusRunning)
    \/ \E c \in Callers : LockedHeartbeat(WorkerOf(c), FALSE)

SpecExec == Init /\ [][NextExec]_vars

\* The durations a task may take, in eighths of a second.
Durations == {8, 16, 24, 32, 40}

NextWorker == \E d \in Durations : CompleteTask(d)

SpecWorker == Init /\ [][NextWorker]_vars

\* The observer that aggregates: the pairs (CPU, Memory) a tick may measure
\* and the figures UpdateMetrics may bring.
Measurements == {<<40, 100>>, <<90, 300>>}
ReportedMetrics ==
    {AgentMetrics(0, 0, queued, err) : queued \in {0, 2}, err \in {0, 4}}

NextAgg ==
    \/ \E names \in SUBSET AgentNames :
           StartMonitoring(names) /\ UNCHANGED mapVars
    \/ \E name \in AgentNames, m \in ReportedMetrics :
           ObserverUpdateMetrics(name, m) /\ UNCHANGED mapVars
    \/ \E measured \in [DOMAIN metricsMap -> Measurements] :
           ObserverCollectMetrics(measured) /\ UNCHANGED mapVars

SpecAgg == Init /\ [][NextAgg]_vars

\* The same operations called from several goroutines, each between its
\* first and its last access to the map.
NextMap ==
    \/ \E a \in MapOperations : MapBegin(a)
    \/ \E names \in SUBSET AgentNames :
           StartMonitoring(names) /\ MapEnd("StartMonitoring")
    \/ \E name \in AgentNames, m \in ReportedMetrics :
           ObserverUpdateMetrics(name, m) /\ MapEnd("UpdateMetrics")
    \/ \E measured \in [DOMAIN metricsMap -> Measurements] :
           ObserverCollectMetrics(measured) /\ MapEnd("collectMetrics")
    \/ \E name \in AgentNames : GetMetrics(name) /\ MapEnd("GetMetrics")

SpecMap == Init /\ [][NextMap]_vars

\* A HiveMind used directly and through its orchestrator.
NextHive ==
    \/ \E agent \in HiveAgents : AssignAgents(agent)
    \/ \E task \in HiveTasks : AssignTasks(task)
    \/ \E outcome \in ExecuteOutcomes : Execute(outcome)
    \/ \E agent \in HiveAgents, task \in HiveTasks, outcome \in ExecuteOutcomes :
           DelegateTask(agent, task, outcome)
    \/ \E result \in {Approved, "REPROVADO"}, outcome \in ExecuteOutcomes :
           EvaluateContent(result, 500, outcome)

SpecHive == Init /\ [][NextHive]_vars

\* A HiveMind that only its orchestrator uses.
NextOrchestrator ==
    \/ \E agent \in HiveAgents, task \in HiveTasks, outcome \in ExecuteOutcomes :
           DelegateTask(agent, task, outcome)
    \/ \E result \in {Approved, "REPROVADO"}, outcome \in ExecuteOutcomes :
           EvaluateContent(result, 500, outcome)

SpecOrchestrator == Init /\ [][NextOrchestrator]_vars

\* The memory manager alone: any store may fail on any call. Inside the
\* consolidation loop an item meets at most one failure, the first one:
\* the read, the insert or the delete.
StoreOutcomes == {"", "get", "insert", "del"}
NextMem ==
    \/ \E agentID \in MemAgents, id \in MemIDs, importance \in Importances,
          type \in MemoryTypes, fails \in BOOLEAN :
           StoreMemory(agentID, id, importance, type, fails)
    \/ \E agentID \in MemAgents, outcome \in [MemIDs -> StoreOutcomes] :
           ConsolidateMemories(agentID,
                               {id \in MemIDs : outcome[id] = "get"},
                               {id \in MemIDs : outcome[id] = "insert"},
                               {id \in MemIDs : outcome[id] = "del"})

SpecMem == Init /\ [][NextMem]_vars

\* Agents that memorize while time passes.
NextMemorize ==
    \/ \E agentID \in MemAgents, importance \in Importances,
          isLongTerm \in BOOLEAN, fails \in BOOLEAN :
           Memorize(agentID, importance, isLongTerm, fails)
    \/ Pass

SpecMemorize == Init /\ [][NextMemorize]_vars

\* The observer's goroutine, its ticker and a caller of Stop; the figures a
\* collection may measure.
Usages == {40, 65, 90}

NextObserver ==
    \/ Ticker
    \/ SelectTick
    \/ \E cpu \in Usages, mem \in Usages : LoopCollectMetrics(cpu, mem)
    \/ SelectStop
    \/ Stop

\* The observer whose metrics the orchestrator reads.
InitObserver == InitState /\ impl = "orchestrator"

SpecObserver == InitObserver /\ [][NextObserver]_vars

\* The observer's collection ticks and one caller that evaluates the
\* metrics it got from GetSystemMetrics.
NextRead ==
    \/ \E cpu \in Usages, mem \in Usages : collectMetrics(cpu, mem)
    \/ GetSystemMetrics
    \/ ReadCPUUsage
    \/ ReadMemoryUsage

SpecRead == InitObserver /\ [][NextRead]_vars

\* A select with several ready cases takes one of them at random, so a case
\* that is ready again and again is taken in the end; a collection that
\* started finishes.
SpecObserverFair ==
    /\ SpecObserver
    /\ SF_vars(SelectStop)
    /\ WF_vars(\E cpu \in Usages, mem \in Usages : LoopCollectMetrics(cpu, mem))

\* ================================================================ claims
\* The status path Pending -> Assigned -> Running -> {Complete | Failed}.
Rank(status) ==
    CASE status = TaskStatusPending -> 0
      [] status = TaskStatusAssigned -> 1
      [] status = TaskStatusRunning -> 2
      [] OTHER -> 3

Terminal(status) == status \in {TaskStatusComplete, TaskStatusFailed}

\* last is a GetNextTask call by agent w.
Polled(w) == last.op = "GetNextTask" /\ last.agent = w
\* The step is a GetNextTask call by agent w.
Polls(w) == last'.op = "GetNextTask" /\ last'.agent = w

HasRecord(w) == w \in DOMAIN healthStatus
Age(w) == now - healthStatus[w].LastHeartbeat
Idle(w) == ~healthStatus[w].IsProcessing

\* The pending tasks of a type.
PendingOfType(type) ==
    {t \in DOMAIN tasks :
        tasks[t].Status = TaskStatusPending /\ tasks[t].Type = type}

\* ---------------------------------------------------------------- C1
\* C1: however the GetNextTask calls of several goroutines interleave, a
\* pending task is returned to at most one of them: between two moments at
\* which AddTask or UpdateTaskStatus makes a task pending, GetNextTask returns
\* it to one caller at most.
C1_AtMostOneAssignment ==
    \A t \in TaskIDs : Cardinality(handed[t]) <= 1

\* Two calls overlapped and each returned a task: the task of the one was
\* handed out while the other was in its call, and the other got another.
C1_Witness ==
    \E c, d \in Callers :
        /\ c # d /\ pc[c] = "done" /\ pc[d] = "done"
        /\ best[c] # NilTask /\ best[d] # NilTask /\ best[c] # best[d]
        /\ best[c] \in since[d]
        /\ handed[best[c]] = {c} /\ handed[best[d]] = {d}

\* ---------------------------------------------------------------- C2
\* C2 as stated: GetNextTask(w) returns a task only if w has a health record
\* and now - lastHeartbeat < 30s, so a heartbeat exactly 30s old gets none.
C2_LiveStrictlyInsideWindow ==
    \A w \in AgentNames :
        (Polled(w) /\ last.ret # NilTask) =>
            (HasRecord(w) /\ Age(w) < LivenessWindow)

\* C2 amended: GetNextTask(w) returns a task only if w has a health record
\* and now - lastHeartbeat <= 30s; a worker with no record or with a
\* heartbeat strictly older than 30s gets none, whatever tasks are pending.
C2_LiveWithinWindow ==
    \A w \in AgentNames :
        (Polled(w) /\ last.ret # NilTask) =>
            (HasRecord(w) /\ Age(w) <= LivenessWindow)

\* An idle worker whose heartbeat is older than the window polled, a task of
\* its type was pending, and it got none.
C2_Witness ==
    \E w \in AgentNames :
        /\ Polled(w) /\ last.ret = NilTask
        /\ HasRecord(w) /\ Age(w) > LivenessWindow /\ Idle(w)
        /\ PendingOfType(w) # {}

\* ---------------------------------------------------------------- C3
\* C3: every worker has at most one task assigned to it whose status is
\* Assigned or Running.
NonTerminalOf(w) ==
    {t \in DOMAIN tasks :
        /\ tasks[t].AssignedTo = w
        /\ tasks[t].Status \in {TaskStatusAssigned, TaskStatusRunning}}

C3_AtMostOneNonTerminal ==
    \A w \in AgentNames : Cardinality(NonTerminalOf(w)) <= 1

\* ---------------------------------------------------------------- C4
\* C4: when a live, idle worker polls and tasks of its type are pending, it
\* is handed one of them, and no pending task of its type had a higher
\* priority than the one handed out.
C4_HighestPriorityFirst ==
    [][\A w \in AgentNames :
          (/\ Polls(w)
           /\ HasRecord(w) /\ Age(w) <= LivenessWindow /\ Idle(w)
           /\ PendingOfType(w) # {})
          => /\ last'.ret \in PendingOfType(w)
             /\ \A u \in PendingOfType(w) :
                    tasks[u].Priority <= tasks[last'.ret].Priority]_vars

\* A worker was handed a task while a task of its type with a lower priority
\* stays pending.
C4_Witness ==
    \E w \in AgentNames :
        /\ Polled(w) /\ last.ret # NilTask
        /\ \E u \in PendingOfType(w) :
               tasks[u].Priority < tasks[last.ret].Priority

\* ---------------------------------------------------------------- C5
\* The type each worker is registered for: the worker named "quiz-worker"
\* works on tasks of type "quiz".
RegisteredType(w) == "quiz"

\* C5: GetNextTask(w) hands out only tasks of w's registered type, and a
\* live, idle worker is not sent away while a task of its registered type is
\* pending, whatever the worker's name.
C5_MatchesRegisteredType ==
    \A w \in AgentNames :
        Polled(w) =>
            /\ last.ret # NilTask => tasks[last.ret].Type = RegisteredType(w)
            /\ (/\ last.ret = NilTask
                /\ HasRecord(w) /\ Age(w) <= LivenessWindow /\ Idle(w))
               => PendingOfType(RegisteredType(w)) = {}

\* ---------------------------------------------------------------- C6
\* C6: a stored task's status never moves to an earlier status and never
\* leaves Complete or Failed.
C6_StatusMonotonic ==
    [][\A t \in DOMAIN tasks :
          /\ t \in DOMAIN tasks'
          /\ Rank(tasks'[t].Status) >= Rank(tasks[t].Status)
          /\ Terminal(tasks[t].Status) =>
                tasks'[t].Status = tasks[t].Status]_vars

\* ---------------------------------------------------------------- C7
\* C7: the only status change GetNextTask makes is Pending -> Assigned; the
\* task it returns was Pending before the call and is Assigned to the caller
\* after it.
C7_OnlyPendingToAssigned ==
    [][\A w \in AgentNames :
          Polls(w) =>
            /\ DOMAIN tasks' = DOMAIN tasks
            /\ \A t \in DOMAIN tasks :
                  tasks'[t].Status # tasks[t].Status =>
                      /\ t = last'.ret
                      /\ tasks[t].Status = TaskStatusPending
                      /\ tasks'[t].Status = TaskStatusAssigned
            /\ last'.ret # NilTask =>
                  /\ last'.ret \in DOMAIN tasks
                  /\ tasks[last'.ret].Status = TaskStatusPending
                  /\ tasks'[last'.ret].Status = TaskStatusAssigned
                  /\ tasks'[last'.ret].AssignedTo = w]_vars

\* GetNextTask returned a task while another stored task is not pending.
C7_Witness ==
    \E w \in AgentNames :
        /\ Polled(w) /\ last.ret # NilTask
        /\ tasks[last.ret].Status = TaskStatusAssigned
        /\ tasks[last.ret].AssignedTo = w
        /\ \E u \in DOMAIN tasks :
               u # last.ret /\ tasks[u].Status # TaskStatusPending

\* ---------------------------------------------------------------- C8
\* The latest time a CheckScaling call returned true; the construction of the
\* autoscaler (time 0) before any did.
LastTrigger == IF triggers = <<>> THEN 0 ELSE triggers[Len(triggers)]

\* The step is the first statement of a CheckScaling call by goroutine s.
Checks(s) == last'.op = "CheckCooldown" /\ last'.id = s

\* C8: a CheckScaling call made less than the cooldown (300s) after the
\* latest call that returned true, or after the construction, returns false,
\* whatever the metrics are.
C8_CooldownHoldsBack ==
    [][\A s \in Scalers :
          (Checks(s) /\ now - LastTrigger < cooldownPeriod) =>
              (spc'[s] = "done" /\ sret'[s] = FALSE)]_vars

\* A call returned true, and a later call inside the cooldown returned false
\* while a threshold was breached.
C8_Witness ==
    /\ triggers # <<>>
    /\ now - LastTrigger < cooldownPeriod
    /\ last.op = "CheckCooldown"
    /\ spc[last.id] = "done" /\ sret[last.id] = FALSE
    /\ metrics.CPUUsage > cpuThreshold

\* ---------------------------------------------------------------- C9
\* C9: two CheckScaling calls that return true are at least the cooldown
\* apart, so concurrent callers get true at most once per cooldown window.
C9_OneTriggerPerWindow ==
    Len(triggers) = 2 => triggers[2] - triggers[1] >= cooldownPeriod

\* ---------------------------------------------------------------- C10
\* The step is the threshold test of a CheckScaling call by goroutine s.
Evaluates(s) == last'.op = "Evaluate" /\ last'.id = s

\* The step is the threshold test of the other definition's ScaleSystem.
OrchEvaluates(s) == last'.op = "OrchEvaluate" /\ last'.id = s

\* C10: once the cooldown has elapsed, the decision is true exactly when CPU
\* is above 80, memory above 85, the queue depth above the tasks threshold or
\* the error rate above the error threshold; a figure equal to its threshold
\* does not count.  This holds of CheckScaling and of the other definition's
\* ScaleSystem, each with its own metrics and thresholds.
C10_DecisionIsStrictOr ==
    [][\A s \in Scalers :
          /\ Evaluates(s) =>
                (sret'[s] = TRUE <=>
                    \/ metrics.CPUUsage > 80
                    \/ metrics.MemoryUsage > 85
                    \/ metrics.TaskCount > tasksThreshold
                    \/ metrics.ErrorRate > errorThreshold)
          /\ OrchEvaluates(s) =>
                (sret'[s] = TRUE <=>
                    \/ obsMetrics.CPUUsage > 80
                    \/ obsMetrics.MemoryUsage > 85
                    \/ obsMetrics.TasksPerAgent > TASKS_THRESHOLD
                    \/ obsMetrics.ErrorCount > ERROR_THRESHOLD)]_vars

\* The decision was true with the queue depth alone above its threshold and
\* the other three figures equal to theirs.
C10_Witness ==
    /\ last.op = "Evaluate"
    /\ sret[last.id] = TRUE
    /\ metrics = SystemMetrics(80, 85, tasksThreshold + 1, errorThreshold)

\* ---------------------------------------------------------------- C11
\* Goroutine s is between the decision of ScaleSystem and the end of its
\* scale-out.
InScaleOut(s) ==
    /\ via[s] = "ScaleSystem"
    /\ spc[s] \in {"scale", "rlock", "loop", "wlock", "register"}

\* C11: while a scale-out is starting or running, lastScaleTime is already the
\* time of the decision that started it (no true decision is later than
\* lastScaleTime), under either definition of the autoscaler.
C11_ResetAtDecision ==
    \A s \in Scalers : InScaleOut(s) => lastScaleTime >= LastTrigger

\* ---------------------------------------------------------------- C12
\* The worker has a live health record whose ProcessingTime is above 5s.
LiveOverloaded(name) ==
    /\ name \in DOMAIN healthStatus
    /\ ~Unhealthy(name)
    /\ healthStatus[name].ProcessingTime > OverloadSeconds

\* C12: a scale-out makes a clone of a template only if the template has a
\* live instance whose processing time is above 5s: ScaleSystem appends a
\* clone only for such a name, and scaleOut clones only such an agent.
C12_CloneOnlyOverloaded ==
    [][/\ last'.op = "ScaleOut" =>
            \A n \in DOMAIN instances :
                Len(instances'[n]) > Len(instances[n]) => LiveOverloaded(n)
       /\ last'.op = "scaleOut" =>
            \A s \in Scalers : \A a \in agents :
                (a \in visited'[s] \ visited[s] /\ spc'[s] = "wlock")
                    => LiveOverloaded(a)]_vars

\* ---------------------------------------------------------------- C13
\* C13: the instance a scale-out adds to the registry has a name that no
\* instance had before.
C13_CloneNameIsNew ==
    [][last'.op = "ScaleOut" =>
          \A n \in DOMAIN instances :
              Len(instances'[n]) > Len(instances[n]) =>
                  \A i \in 1..Len(instances[n]) :
                      instances'[n][Len(instances'[n])] # instances[n][i]]_vars

\* ---------------------------------------------------------------- C14
IsPrefix(a, b) == Len(a) <= Len(b) /\ \A i \in 1..Len(a) : a[i] = b[i]

\* C14: every step keeps every registered instance (each name's list only
\* gets longer, the set of registered agents only gets larger); the registry
\* changes only in RegisterAgent or in the scale-out of a ScaleSystem call
\* whose CheckScaling returned true.
C14_InstancesOnlyGrow ==
    [][/\ \A n \in DOMAIN instances :
            n \in DOMAIN instances' /\ IsPrefix(instances[n], instances'[n])
       /\ agents \subseteq agents'
       /\ instances' # instances =>
            \/ last'.op = "RegisterAgent"
            \/ last'.op = "ScaleOut" /\ sret[last'.id] = TRUE
       /\ agents' # agents =>
            /\ last'.op = "Registered"
            /\ via[last'.id] = "RegisterAgent" \/ sret[last'.id] = TRUE]_vars

\* A scale-out has added a second instance next to a registered one.
C14_Witness ==
    /\ last.op = "ScaleOut"
    /\ "quiz" \in DOMAIN instances
    /\ Len(instances["quiz"]) = 2
    /\ sret[last.id] = TRUE

\* ---------------------------------------------------------------- C15
\* The step is an AddTask call; it leaves the task in the store, pending and
\* stamped with the time of the call, and every other stored task as it was.
AddsTask == last'.op = "AddTask"

Stored ==
    /\ last'.id \in DOMAIN tasks'
    /\ tasks'[last'.id].Status = TaskStatusPending
    /\ tasks'[last'.id].CreatedAt = now
    /\ \A o \in DOMAIN tasks \ {last'.id} :
           o \in DOMAIN tasks' /\ tasks'[o] = tasks[o]

\* C15 as stated: every AddTask call stores the task as pending and publishes
\* one task-created event under task.<type>.
C15_StoresAndPublishes ==
    [][AddsTask =>
          /\ Stored
          /\ last'.pub = <<"task." \o tasks'[last'.id].Type>>]_vars

\* C15, amended: every AddTask call, also one made while GetNextTask calls
\* are in progress, stores the task as pending with createdAt set and loses
\* no other task; it publishes one event under task.<type> when the task
\* serializes and the publish succeeds, and none, with the error logged,
\* otherwise.
C15_StoresAndPublishesUnlessError ==
    [][AddsTask =>
          /\ Stored
          /\ last'.err = "" => last'.pub = <<"task." \o tasks'[last'.id].Type>>
          /\ last'.err # "" => last'.pub = <<>>]_vars

\* Two AddTask calls with distinct IDs have both taken effect, the second
\* made while a GetNextTask call was waiting for the lock, and its event is
\* out.
C15_Witness ==
    /\ last.op = "AddTask"
    /\ last.pub = <<"task.quiz">>
    /\ DOMAIN tasks = TaskIDs
    /\ \A t \in TaskIDs : tasks[t].Status = TaskStatusPending
    /\ \E c \in Callers : pc[c] = "waiting"

\* ---------------------------------------------------------------- C16
\* The step is an UpdateTaskStatus call.
Updates == last'.op = "UpdateTaskStatus"

\* C16: an UpdateTaskStatus call with an ID that is not in the store returns
\* and leaves the store, and the health registry, exactly as they were.
C16_UnknownIDIsNoOp ==
    [][(Updates /\ last'.id \notin DOMAIN tasks) =>
          (tasks' = tasks /\ healthStatus' = healthStatus)]_vars

\* The call was made with an unknown ID while another task, assigned to a
\* worker, was in the store.
C16_Witness ==
    /\ last.op = "UpdateTaskStatus"
    /\ last.id \notin DOMAIN tasks
    /\ \E t \in DOMAIN tasks : tasks[t].Status = TaskStatusAssigned

\* ---------------------------------------------------------------- C17
\* C17: an UpdateTaskStatus call on a stored task leaves it with the status
\* passed as its status, stamps completedAt with the time of the call when
\* that status is complete and leaves completedAt as it was otherwise, and
\* changes no other field of the task and no other task.
C17_SetsStatusAndCompletedAt ==
    [][(Updates /\ last'.id \in DOMAIN tasks) =>
          LET id == last'.id
              st == last'.status
          IN  /\ DOMAIN tasks' = DOMAIN tasks
              /\ tasks'[id] = [tasks[id] EXCEPT
                      !.Status = st,
                      !.CompletedAt =
                          IF st = TaskStatusComplete THEN <<now>> ELSE @]
              /\ \A o \in DOMAIN tasks \ {id} : tasks'[o] = tasks[o]]_vars

\* An assigned task was completed and then set to failed: it keeps its
\* completedAt and its assignedTo, next to another stored task.
C17_Witness ==
    /\ last.op = "UpdateTaskStatus"
    /\ last.id \in DOMAIN tasks
    /\ tasks[last.id].Status = TaskStatusFailed
    /\ tasks[last.id].CompletedAt # NilTime
    /\ tasks[last.id].AssignedTo # ""
    /\ DOMAIN tasks = TaskIDs

\* ---------------------------------------------------------------- C18
\* C18: a failed task is left exactly as it is by every step that is not a
\* caller's AddTask or UpdateTaskStatus: GetNextTask never hands it out or
\* makes it pending again, and a heartbeat does not touch it.
C18_FailedIsTerminal ==
    [][\A t \in DOMAIN tasks :
          (tasks[t].Status = TaskStatusFailed
              /\ last'.op \notin {"AddTask", "UpdateTaskStatus"}) =>
                  (t \in DOMAIN tasks' /\ tasks'[t] = tasks[t]
                      /\ last'.ret # t)]_vars

\* A live, idle worker polled while the only task of its type was a failed
\* one, and got nothing.
C18_Witness ==
    /\ last.op = "GetNextTask"
    /\ last.ret = NilTask
    /\ last.agent \in DOMAIN healthStatus
    /\ ~healthStatus[last.agent].IsProcessing
    /\ \E t \in DOMAIN tasks :
           tasks[t].Status = TaskStatusFailed /\ tasks[t].Type = last.agent

\* ---------------------------------------------------------------- C19
\* The step is the delivery of a well-formed heartbeat.
Applies == last'.op = "Heartbeat" /\ last'.msg[1].decodes

\* The AgentHealth a body carries.
Carried(body) ==
    [AgentName |-> body.agent_name, LastHeartbeat |-> body.last_heartbeat,
     IsProcessing |-> body.is_processing, ProcessingTime |-> body.processing_time]

\* C19: the registry holds one record per name, stored under the name it
\* carries; a delivered well-formed heartbeat becomes the record of its name
\* whatever its timestamp, every other record stays as it was, and no step
\* removes a record.
C19_LastWriteWinsNoRemoval ==
    [][/\ DOMAIN healthStatus \subseteq DOMAIN healthStatus'
       /\ \A n \in DOMAIN healthStatus' :
            /\ healthStatus'[n].AgentName = n
            /\ IF Applies /\ last'.msg[1].agent_name = n
               THEN healthStatus'[n] = Carried(last'.msg[1])
               ELSE n \in DOMAIN healthStatus
                        /\ healthStatus'[n] = healthStatus[n]]_vars

\* A heartbeat stamped before the present was delivered and is the record of
\* its worker, next to the record of a worker that has long been silent.
C19_Witness ==
    /\ last.op = "Heartbeat"
    /\ last.msg[1].decodes
    /\ healthStatus[last.agent] = Carried(last.msg[1])
    /\ healthStatus[last.agent].LastHeartbeat < now
    /\ \E n \in DOMAIN healthStatus :
           n # last.agent /\ now - healthStatus[n].LastHeartbeat > LivenessWindow

\* ---------------------------------------------------------------- C20
\* The step is the delivery of a body that does not decode.
Drops == last'.op = "Heartbeat" /\ ~last'.msg[1].decodes

\* C20: the delivery of a body that does not decode leaves the registry and
\* the task store as they were, and every well-formed heartbeat delivered
\* after one was dropped becomes the record of its worker.
C20_MalformedDropped ==
    [][/\ Drops => (healthStatus' = healthStatus /\ tasks' = tasks)
       /\ (dropped /\ Applies) =>
            (last'.msg[1].agent_name \in DOMAIN healthStatus'
                /\ healthStatus'[last'.msg[1].agent_name] = Carried(last'.msg[1]))]_vars

\* A well-formed heartbeat of a worker has been applied after a body that did
\* not decode was dropped, with a task in the store.
C20_Witness ==
    /\ last.op = "Heartbeat"
    /\ last.msg[1].decodes
    /\ healthStatus[last.agent] = Carried(last.msg[1])
    /\ tasks # <<>>
    /\ dropped

\* ---------------------------------------------------------------- C21
\* The step is one tick of the aggregating collectMetrics.
Ticks == last'.op = "ObserverCollectMetrics"

\* C21: a tick with no tracked worker leaves the snapshot as it was, and no
\* snapshot ever holds the result of a division by zero.
C21_EmptyPopulationSkipped ==
    [][/\ (Ticks /\ DOMAIN metricsMap = {}) => systemMetrics' = systemMetrics
       /\ NaN \notin {systemMetrics'.CPUUsage, systemMetrics'.MemoryUsage,
                      systemMetrics'.ErrorRate}]_vars

\* The loop was started for no agent and a tick has run.
C21_Witness ==
    /\ last.op = "ObserverCollectMetrics"
    /\ monitoring
    /\ DOMAIN metricsMap = {}
    /\ systemMetrics = SystemMetrics(0, 0, 0, 0)

\* ---------------------------------------------------------------- C22
\* C22: after a tick over a non-empty population each of the four figures of
\* the snapshot, times the number of tracked workers, is the total of that
\* figure over the tracked workers.
C22_SnapshotIsMean ==
    [][(Ticks /\ DOMAIN metricsMap # {}) =>
          LET W == DOMAIN metricsMap'
              count == Cardinality(W)
              total(field) == Sum([n \in W |-> metricsMap'[n][field]], W)
          IN  /\ systemMetrics'.CPUUsage * count = total("CPU")
              /\ systemMetrics'.MemoryUsage * count = total("Memory")
              /\ systemMetrics'.TaskCount * count = total("TasksInQueue")
              /\ systemMetrics'.ErrorRate * count = total("ErrorRate")]_vars

\* ---------------------------------------------------------------- C23
\* C23: the lock of the task store is held only by a goroutine that is inside
\* GetNextTask, between its Lock and its return; a worker that has received
\* a task and is executing it holds nothing, so the calls of the others go
\* through.
C23_ExecutionHoldsNoLock ==
    \A c \in Callers : mutex = c => pc[c] \in {"locked", "selected"}

\* Worker quiz holds task 1 and has not finished it; the poll of worker
\* challenge, made meanwhile, has returned another task.
C23_Witness ==
    /\ last.op = "GetNextTask"
    /\ last.agent = "challenge"
    /\ last.ret # NilTask
    /\ \E t \in DOMAIN tasks :
           /\ t # last.ret
           /\ tasks[t].AssignedTo = "quiz"
           /\ tasks[t].Status \in {TaskStatusAssigned, TaskStatusRunning}
    /\ pc[1] = "done"
    /\ mutex = NoHolder

\* ---------------------------------------------------------------- C24
RECURSIVE Total(_)
\* The total of a sequence of durations.
Total(seq) == IF seq = <<>> THEN 0 ELSE seq[1] + Total(Tail(seq))

\* The step is the completion of a task, of duration Latest.
Completes == last'.op = "CompleteTask"
Latest == durations'[Len(durations')]

\* The estimate after the step is the plain average of all the durations.
IsPlainAverage == estimate' * Len(durations') = Total(durations')

\* C24 as stated: the first duration is the estimate, a later one moves the
\* estimate halfway towards it, and from the third task on the estimate is
\* never the plain average of the durations.
C24_EmaNeverPlainAverage ==
    [][Completes =>
          /\ durations = <<>> => estimate' = Latest
          /\ durations # <<>> => 2 * estimate' = estimate + Latest
          /\ Len(durations') >= 3 => ~IsPlainAverage]_vars

\* C24, amended: the first duration is the estimate, a later one moves the
\* estimate halfway towards it; on the third task the estimate is the plain
\* average of the three durations only when the third duration is the mean
\* of the first two.
C24_EmaHalfway ==
    [][Completes =>
          /\ durations = <<>> => estimate' = Latest
          /\ durations # <<>> => 2 * estimate' = estimate + Latest
          /\ Len(durations') = 3 =>
                (IsPlainAverage <=> 2 * Latest = durations[1] + durations[2])]_vars

\* Three tasks of different durations are done and the estimate is not their
\* plain average.
C24_Witness ==
    /\ last.op = "CompleteTask"
    /\ durations = <<8, 16, 40>>
    /\ estimate = 26
    /\ estimate * 3 # Total(durations)

\* ---- C25
Consolidates == last'.op = "ConsolidateMemories"
Key(id) == <<last'.agent, id>>
Promoted(m) == [m EXCEPT !.Type = LongTerm]
Failed(id) ==
    id \in last'.msg[1].unreadable \union last'.msg[1].rejected
           \union last'.msg[1].undeleted
Moved(id) ==
    /\ longTerm'[id] = Promoted(shortTerm[Key(id)])
    /\ shortTerm'[Key(id)] = NoMemory
Kept(id) == shortTerm'[Key(id)] = shortTerm[Key(id)]

\* C25 as stated: ConsolidateMemories moves every short-term item of the
\* agent at or above the threshold to the long-term tier, leaves every item
\* below it in the short-term tier, and loses none.
C25_ConsolidationMovesAll ==
    [][Consolidates =>
         \A id \in MemIDs :
             shortTerm[Key(id)] # NoMemory =>
                 /\ shortTerm[Key(id)].Importance >= ImportanceThreshold
                        => Moved(id)
                 /\ shortTerm[Key(id)].Importance < ImportanceThreshold
                        => Kept(id) /\ longTerm'[id] = longTerm[id]
                 /\ Kept(id) \/ longTerm'[id] = Promoted(shortTerm[Key(id)])]_vars

\* What the loop does guarantee (the part of C25 that holds): an item at or
\* above the threshold is moved when none of its read, its insert and its
\* delete fails and no document has its ID yet;
\* it leaves the short-term tier only if this call wrote it to the
\* long-term tier, and otherwise stays; an item below the threshold stays
\* and is not written; the other agents' items are untouched; no item is in
\* neither tier afterwards.
C25_ConsolidationKeepsItems ==
    [][Consolidates =>
         /\ \A id \in MemIDs :
                shortTerm[Key(id)] # NoMemory =>
                    /\ ( /\ shortTerm[Key(id)].Importance >= ImportanceThreshold
                         /\ ~Failed(id)
                         /\ longTerm[id] = NoMemory ) => Moved(id)
                    /\ shortTerm[Key(id)].Importance < ImportanceThreshold
                           => Kept(id) /\ longTerm'[id] = longTerm[id]
                    /\ ~Kept(id) => /\ Moved(id)
                                    /\ longTerm[id] = NoMemory
                    /\ Kept(id) \/ longTerm'[id] = Promoted(shortTerm[Key(id)])
         /\ \A k \in MemKeys : k[1] # last'.agent => shortTerm'[k] = shortTerm[k]]_vars

\* One item of the agent was moved and one below the threshold was left,
\* in a call where nothing failed.
C25_Witness ==
    /\ last.op = "ConsolidateMemories"
    /\ last.msg[1].unreadable = {} /\ last.msg[1].rejected = {}
    /\ last.msg[1].undeleted = {}
    /\ \E moved \in MemIDs, left \in MemIDs :
           /\ shortTerm[<<last.agent, moved>>] = NoMemory
           /\ longTerm[moved] = Memory(last.agent, ImportanceThreshold, LongTerm)
           /\ shortTerm[<<last.agent, left>>] # NoMemory
           /\ shortTerm[<<last.agent, left>>].Importance < ImportanceThreshold
           /\ longTerm[left] = NoMemory

\* ---- C26
\* C26: among the pending matching tasks of the highest priority GetNextTask
\* returns the one created first, so the task handed out is determined by
\* the store and the call.
C26_TieBrokenByCreatedAt ==
    [][(last'.op = "GetNextTask" /\ last'.ret # NilTask) =>
           \A u \in BestTasks(last'.agent) :
               tasks[last'.ret].CreatedAt <= tasks[u].CreatedAt]_vars

\* ---- C27
\* C27: once Stop has closed the stop signal, no further collection tick
\* runs and the observer's metrics are not written again.
C27_NothingRunsAfterStop ==
    [][stopClosed => /\ obsMetrics' = obsMetrics
                     /\ loopPc' # "collecting"]_vars
\* The half of C27 that holds: after Stop the loop returns in the end.
C27_LoopTerminates == stopClosed ~> (loopPc = "returned")
\* ---- C28
\* C28: GetNextTask changes at most one task. When it returns none, no task
\* and no health record changes; when it returns t, only t's status and
\* assignedTo change, every other task is unchanged, no task is added or
\* removed, and the health registry is unchanged.
C28_GetNextTaskFrame ==
    [][last'.op = "GetNextTask" =>
           /\ healthStatus' = healthStatus
           /\ DOMAIN tasks' = DOMAIN tasks
           /\ IF last'.ret = NilTask
              THEN tasks' = tasks
              ELSE /\ last'.ret \in DOMAIN tasks
                   /\ \A u \in DOMAIN tasks \ {last'.ret} : tasks'[u] = tasks[u]
                   /\ tasks'[last'.ret] =
                          [tasks[last'.ret] EXCEPT
                              !.Status = tasks'[last'.ret].Status,
                              !.AssignedTo = tasks'[last'.ret].AssignedTo]]_vars

\* A task was returned while another task was in the store, to a worker
\* whose record says it is not processing.
C28_Witness ==
    /\ last.op = "GetNextTask"
    /\ last.ret # NilTask
    /\ tasks[last.ret].Status = TaskStatusAssigned
    /\ tasks[last.ret].AssignedTo = last.agent
    /\ tasks[last.ret].Priority = PriorityHigh
    /\ ~healthStatus[last.agent].IsProcessing
    /\ \E u \in DOMAIN tasks : u # last.ret /\ tasks[u].Status = TaskStatusPending
\* ---- C29
\* C29: when AddTask fails to serialize or to publish the event, nothing is
\* published, and the task is in the store, pending, and a candidate for
\* every live, idle worker of its type.
C29_FailedPublishKeepsTask ==
    (last.op = "AddTask" /\ last.err # "") =>
        /\ last.pub = <<>>
        /\ last.id \in DOMAIN tasks
        /\ tasks[last.id].Status = TaskStatusPending
        /\ \A a \in DOMAIN healthStatus :
               ( /\ ~Unhealthy(a)
                 /\ ~healthStatus[a].IsProcessing
                 /\ healthStatus[a].AgentName = tasks[last.id].Type )
               => last.id \in Candidates(a)

\* GetNextTask returned a task to a worker, in a run where every AddTask
\* failed to publish.
C29_Witness ==
    /\ last.op = "GetNextTask"
    /\ last.ret # NilTask
    /\ tasks[last.ret].Status = TaskStatusAssigned
    /\ tasks[last.ret].AssignedTo = last.agent
    /\ tasks[last.ret].Type = healthStatus[last.agent].AgentName
\* ---- C30
\* C30: each task ID is returned by GetNextTask at most once. A task that
\* was returned carries the worker's name in assignedTo from then on, so a
\* call never returns a task that carries a name; and AddTask on the ID of
\* a stored task that is Assigned, Running, Complete or Failed does not make
\* it pending again.
C30_ReturnedAtMostOnce ==
    [][/\ (last'.op = "GetNextTask" /\ last'.ret # NilTask)
           => tasks[last'.ret].AssignedTo = ""
       /\ ( /\ last'.op = "AddTask"
            /\ last'.id \in DOMAIN tasks
            /\ tasks[last'.id].Status # TaskStatusPending )
           => tasks'[last'.id].Status # TaskStatusPending]_vars

\* ---- C31
\* C31: every task that was added is returned by GetNextTask in the end to
\* a matching worker that stays live and keeps polling, whatever its
\* priority field holds.
C31_NoTaskStranded ==
    \A id \in TaskIDs :
        (id \in DOMAIN tasks)
            ~> (id \in DOMAIN tasks /\ tasks[id].Status # TaskStatusPending)

\* The part of C31 that holds: a task whose priority is one of the three
\* declared values is returned in the end.
C31_DeclaredPriorityReturned ==
    \A id \in TaskIDs :
        (id \in DOMAIN tasks /\ tasks[id].Priority \in Priorities)
            ~> (id \in DOMAIN tasks /\ tasks[id].Status # TaskStatusPending)

\* ---- C32
\* C32: ScaleSystem of the orchestrator always returns: no goroutine waits
\* for the write lock of agentLock while it holds the read lock itself (a
\* wait that can never end, and behind which every other caller of
\* RegisterAgent and Stop waits too).
C32_ScaleOutNeverSelfBlocks ==
    \A s \in Scalers : spc[s] = "wlock" => s \notin agentLock.readers

\* ---- C33
\* C33: a CheckScaling call that returns false writes nothing. The cooldown
\* test that ends the call, and the threshold test that finds no breach,
\* leave lastScaleTime, the metrics and the instance registry as they were
\* and end the call (a ScaleSystem call goes no further); the registry is
\* only ever extended by a scale-out whose check returned true.
C33_FalseCheckChangesNothing ==
    [][\A s \in Scalers :
          /\ (Checks(s) /\ spc'[s] = "done") =>
                 /\ sret'[s] = FALSE
                 /\ CooldownActive
                 /\ lastScaleTime' = lastScaleTime
                 /\ infraVars' = infraVars
          /\ (Evaluates(s) /\ sret'[s] = FALSE) =>
                 /\ ~Breached
                 /\ lastScaleTime' = lastScaleTime
                 /\ infraVars' = infraVars
                 /\ spc'[s] = "done"
          /\ (last'.op = "ScaleOut" /\ last'.id = s) => sret[s] = TRUE]_vars

\* A ScaleSystem call has just returned without scaling: the cooldown had
\* elapsed, no threshold was breached, and an instance is registered.
C33_Witness ==
    /\ last.op = "Evaluate"
    /\ last.agent = "ScaleSystem"
    /\ sret[last.id] = FALSE
    /\ spc[last.id] = "done"
    /\ now - lastScaleTime >= cooldownPeriod
    /\ "quiz" \in DOMAIN instances
    /\ Len(instances["quiz"]) = 1

\* ---- C34
\* C34: the SystemMetrics a caller got from GetSystemMetrics are a snapshot:
\* every field the caller reads afterwards has the value it had when the
\* call returned, whatever ticks ran in between.
C34_ConsistentSnapshot ==
    /\ rpc \in {"cpu", "done"} => seen.CPUUsage = obtained.CPUUsage
    /\ rpc = "done" => seen.MemoryUsage = obtained.MemoryUsage

\* ---- C35
\* C35: every operation that is reading or writing the per-worker metrics
\* map holds metricsMapLock, and no operation writes the map while another
\* one is reading or writing it.
C35_MapAccessUnderLock ==
    /\ \A a \in inMap : mapLock.writer = a \/ a \in mapLock.readers
    /\ \A a \in inMap, b \in inMap :
           a # b => (a = "GetMetrics" /\ b = "GetMetrics")

\* ---- C36
\* C36: HiveMind.Execute returns an error when no task is assigned, and when
\* the first task has no agent and no agent is assigned; every error return
\* leaves the Tasks and Agents lists exactly as they were, and the lists are
\* emptied by the successful return only.
C36_ErrorKeepsLists ==
    [][last'.op = "Execute" =>
          /\ hmTasks = <<>> => last'.err = "no task"
          /\ (hmTasks # <<>> /\ taskAgent[hmTasks[1]] = "" /\ hmAgents = <<>>)
                 => last'.err = "no agent"
          /\ last'.err # "" => hmTasks' = hmTasks /\ hmAgents' = hmAgents
          /\ last'.err = "" => hmTasks' = <<>> /\ hmAgents' = <<>>
          /\ (hmTasks' # hmTasks \/ hmAgents' # hmAgents) => last'.err = ""]_vars

\* An Execute whose request failed, with its task and its agent still in
\* the lists.
C36_Witness ==
    /\ last.op = "Execute"
    /\ last.err = "do"
    /\ hmTasks # <<>>
    /\ hmAgents # <<>>

\* ---- C37
\* C37: every DelegateTask(agent, task) call executes exactly the task
\* passed to it, acting as the agent passed to it, also when an earlier
\* DelegateTask or EvaluateContent call returned an error.
C37_DelegatesPassedTask ==
    [][last'.op = "DelegateTask" =>
          /\ last'.msg[1].task = last'.msg[1].passed
          /\ last'.msg[1].agent = last'.agent]_vars

\* The same for the calls made on a HiveMind whose lists are empty and with
\* a task that has no agent yet.
C37_FreshDelegation ==
    [][(/\ last'.op = "DelegateTask"
        /\ hmTasks = <<>>
        /\ hmAgents = <<>>
        /\ taskAgent[last'.msg[1].passed] = "")
          => /\ last'.msg[1].task = last'.msg[1].passed
             /\ last'.msg[1].agent = last'.agent]_vars

\* ---- C38
\* C38: in every reachable state of the task store, a task has CompletedAt
\* set only if its status is Complete.
C38_CompletedAtOnlyWhenComplete ==
    \A id \in DOMAIN tasks :
        tasks[id].CompletedAt # NilTime => tasks[id].Status = TaskStatusComplete

\* The converse: a task whose status is Complete has CompletedAt set.
C38_CompleteHasCompletedAt ==
    \A id \in DOMAIN tasks :
        tasks[id].Status = TaskStatusComplete => tasks[id].CompletedAt # NilTime

\* ---- C39
\* C39: two Memorize calls of one agent create two separately retrievable
\* memories with distinct IDs, also within the same second: a call that
\* returns nil has stored its memory under an ID no stored memory of the
\* agent had, and a call fails only when its store failed.
C39_MemorizeNeverOverwrites ==
    [][last'.op = "Memorize" =>
          /\ last'.err = "" =>
                 /\ shortTerm[<<last'.agent, last'.msg[1].ID>>] = NoMemory
                 /\ longTerm[last'.msg[1].ID] = NoMemory
          /\ last'.err # "" => last'.msg[1].fails]_vars

\* The same for the calls that no earlier call of the agent shares its
\* second with.
C39_DistinctSecondsDistinctMemories ==
    [][(/\ last'.op = "Memorize"
        /\ shortTerm[<<last'.agent, MemorizeID(last'.agent, wall)>>] = NoMemory
        /\ longTerm[MemorizeID(last'.agent, wall)] = NoMemory)
          => /\ last'.err # "" => last'.msg[1].fails
             /\ last'.err = "" =>
                    \/ shortTerm'[<<last'.agent, last'.msg[1].ID>>] # NoMemory
                    \/ longTerm'[last'.msg[1].ID] # NoMemory]_vars

====
